---- MODULE Spec2Model ----
(***************************************************************************)
(* opencode-database-plugin: the event-correlation and write-behind        *)
(* pipeline of src/index.ts over the health gate of src/db.ts and the      *)
(* relations of src/sql/schema.sql.                                         *)
(*                                                                         *)
(* A nullable value (SQL NULL, JS undefined/null) is the empty tuple <<>>, *)
(* a present value v is <<v>>.  A relation with a supplied primary key is  *)
(* a function whose domain is the set of keys that have a row.  A          *)
(* write-behind task is the queryFn of one fireAndForget call: the         *)
(* sequence of SQL statements it still has to run.  The tasks in flight    *)
(* are a bag; the store applies one statement of one of them at a time,    *)
(* in any order across tasks.                                               *)
(***************************************************************************)
EXTENDS Integers, Sequences, FiniteSets, TLC

VARIABLES
  probe,                  \* outcome of the startup probe: "pending", "ok", "failed"
  hooks,                  \* the hooks DatabasePlugin returned
  raised,                 \* the hooks whose call has raised to the host
  now,                    \* Date.now(), ms
  consecutiveFailures,    \* src/db.ts
  lastFailureTime,        \* src/db.ts
  pendingExecutions,      \* callID -> pending execution
  callIdToPartId,         \* callID -> part id
  callIdTimestamps,       \* callID -> ms
  pendingUserMessages,    \* sessionID -> buffered parts
  tokensCountedBySession, \* sessionID -> (messageID -> ms)
  sessions,               \* relation sessions
  messages,               \* relation messages
  message_parts,          \* relation message_parts
  tool_executions,        \* relation tool_executions (set of rows)
  session_errors,         \* relation session_errors (sequence of rows)
  compactions,            \* relation compactions (sequence of rows)
  tasks,                  \* in-flight write-behind tasks: a bag, task -> count
  errorLog,               \* number of calls of logError
  corrSeq,                \* number of correlation ids generated
  nEvents,                \* number of notifications delivered by the host
  nFaults,                \* number of store faults injected
  nTicks,                 \* number of clock advances
  lastEv,                 \* history: the notification delivered last
  lost,                   \* history: tasks dropped by the gate or ended by an error
  execLog,                \* history: what tool.execute.* did per correlation id
  delivered               \* history: payloads delivered per entity

gateVars == <<consecutiveFailures, lastFailureTime>>
mapVars == <<pendingExecutions, callIdToPartId, callIdTimestamps,
             pendingUserMessages, tokensCountedBySession>>
storeVars == <<sessions, messages, message_parts, tool_executions, session_errors,
               compactions>>
histVars == <<lost, execLog, delivered>>
vars == <<probe, hooks, raised, now, gateVars, mapVars, storeVars, tasks, errorLog, corrSeq,
          nEvents, nFaults, nTicks, lastEv, histVars>>

----------------------------------------------------------------------------
(* Bounds of the model *)

MaxEvents == 3
MaxFaults == 1
MaxTicks == 1

(* Program constants *)

BASE_BACKOFF_MS == 1000
MAX_BACKOFF_MS == 60000
STALE_ENTRY_TIMEOUT_MS == 15 * 60 * 1000
CLEANUP_INTERVAL_MS == 60 * 1000

----------------------------------------------------------------------------
(* Values *)

NULL == <<>>
Some(v) == <<v>>
Val(o) == o[1]

\* JS truthiness of an optional string
Truthy(o) == o # NULL /\ o # <<"">>

\* JS `x || null`
OrNull(o) == IF Truthy(o) THEN o ELSE NULL

\* JS `a || b`
OrElse(a, b) == IF Truthy(a) THEN a ELSE b

\* SQL COALESCE(a, b)
Coalesce(a, b) == IF a # NULL THEN a ELSE b

\* SQL LENGTH of a non-null text
Length(o) == Len(Val(o))

Max(a, b) == IF a >= b THEN a ELSE b
Min(a, b) == IF a <= b THEN a ELSE b

RECURSIVE Pow2(_)
Pow2(n) == IF n <= 0 THEN 1 ELSE 2 * Pow2(n - 1)

\* a plausible slip: the entry is left in the map
MapDeleteKeeps(f, k) == f

\* f with key k removed / set
MapDelete(f, k) == [x \in DOMAIN f \ {k} |-> f[x]]
MapSet(f, k, v) == [x \in DOMAIN f \cup {k} |-> IF x = k THEN v ELSE f[x]]

EmptyMap == [x \in {} |-> 0]

\* bags as functions element -> count
BagAdd(b, e) == IF e \in DOMAIN b THEN [b EXCEPT ![e] = @ + 1] ELSE MapSet(b, e, 1)
\* a plausible slip: an operation that has settled stays queued for replay
BagRemoveKeeps(b, e) == b

BagRemove(b, e) == IF b[e] = 1 THEN MapDelete(b, e) ELSE [b EXCEPT ![e] = @ - 1]

AllHooks == {"event", "chat.message", "tool.execute.before", "tool.execute.after"}

----------------------------------------------------------------------------
(* The health gate, src/db.ts *)

\* a plausible slip: the doubling is not capped
BackoffMsUncapped(failures) ==
  BASE_BACKOFF_MS * Pow2(failures - 1)

BackoffMs(failures) ==
  Min(BASE_BACKOFF_MS * Pow2(failures - 1), MAX_BACKOFF_MS)

isDatabaseHealthyBroken ==
  consecutiveFailures = 0

isDatabaseHealthy ==
  IF consecutiveFailures = 0
    THEN TRUE
    ELSE now - lastFailureTime >= BackoffMs(consecutiveFailures)

markHealthy ==
  /\ consecutiveFailures' = 0
  /\ lastFailureTime' = 0

markUnhealthy ==
  /\ consecutiveFailures' = consecutiveFailures + 1
  /\ lastFailureTime' = now

\* String.prototype.includes
Includes(str, sub) ==
  \E i \in 1..(Len(str) - Len(sub) + 1) : SubSeq(str, i, i + Len(sub) - 1) = sub

\* the message of the Error the timeout branch of Promise.race rejects with
QueryTimeoutMessage == "Query timeout"

\* the message of a foreign-key violation raised by the store
ForeignKeyMessage == "violates foreign key constraint"

\* a plausible slip: every failure counts against the gate
IsConnectivityErrorAny(message) == TRUE

\* the error signatures safeQuery counts as connectivity failures
IsConnectivityError(message) ==
  \E sig \in {"connection", "timeout", "ECONNREFUSED", "ENOTFOUND", "ETIMEDOUT"} :
    Includes(message, sig)

----------------------------------------------------------------------------
(* The relations of src/sql/schema.sql and the statements of src/index.ts. *)
(* Each statement is an operator from the statement's parameters (the      *)
(* record st) and the relation's value to the relation's new value.        *)
(* created_at / updated_at are not modelled.                                *)

NewSession(status) ==
  [title |-> NULL, parent_id |-> NULL, project_id |-> NULL, directory |-> NULL,
   share_url |-> NULL, status |-> status, deleted |-> FALSE,
   model_provider |-> NULL, model_id |-> NULL,
   input_tokens |-> 0, output_tokens |-> 0, cache_read_tokens |-> 0,
   cache_write_tokens |-> 0, reasoning_tokens |-> 0, context_tokens |-> 0,
   peak_context_tokens |-> 0, estimated_cost |-> 0, compaction_count |-> 0]

\* a plausible slip: the conflict branch assigns instead of coalescing
UpsertSessionCreatedAssign(st) ==
  IF st.id \in DOMAIN sessions
    THEN [sessions EXCEPT ![st.id] =
            [@ EXCEPT !.title = st.title, !.parent_id = st.parent_id,
                      !.project_id = st.project_id, !.directory = st.directory]]
    ELSE MapSet(sessions, st.id,
            [NewSession("created") EXCEPT
               !.title = st.title, !.parent_id = st.parent_id,
               !.project_id = st.project_id, !.directory = st.directory])

\* session.created: INSERT INTO sessions ... ON CONFLICT (id) DO UPDATE SET COALESCE
UpsertSessionCreated(st) ==
  IF st.id \in DOMAIN sessions
    THEN [sessions EXCEPT ![st.id] =
            [@ EXCEPT !.title = Coalesce(st.title, @),
                      !.parent_id = Coalesce(st.parent_id, @),
                      !.project_id = Coalesce(st.project_id, @),
                      !.directory = Coalesce(st.directory, @)]]
    ELSE MapSet(sessions, st.id,
            [NewSession("created") EXCEPT
               !.title = st.title, !.parent_id = st.parent_id,
               !.project_id = st.project_id, !.directory = st.directory])

\* a plausible slip: the update assigns instead of coalescing
UpdateSessionInfoAssign(st) ==
  IF st.id \in DOMAIN sessions
    THEN [sessions EXCEPT ![st.id] =
            [@ EXCEPT !.title = st.title, !.share_url = st.share_url]]
    ELSE sessions

\* session.updated: UPDATE sessions SET title = COALESCE, share_url = COALESCE
UpdateSessionInfo(st) ==
  IF st.id \in DOMAIN sessions
    THEN [sessions EXCEPT ![st.id] =
            [@ EXCEPT !.title = Coalesce(st.title, @),
                      !.share_url = Coalesce(st.share_url, @)]]
    ELSE sessions

\* UPDATE sessions SET status = ... WHERE id = ... (session.error, chat.message)
SetSessionStatus(st) ==
  IF st.id \in DOMAIN sessions
    THEN [sessions EXCEPT ![st.id] = [@ EXCEPT !.status = st.status]]
    ELSE sessions

\* session.deleted: UPDATE sessions SET deleted_at = NOW(), status = 'deleted'
MarkSessionDeleted(st) ==
  IF st.id \in DOMAIN sessions
    THEN [sessions EXCEPT ![st.id] = [@ EXCEPT !.deleted = TRUE, !.status = "deleted"]]
    ELSE sessions

\* message.updated: INSERT INTO sessions (id, 'active') ON CONFLICT DO UPDATE SET updated_at
EnsureSessionTouch(st) ==
  IF st.id \in DOMAIN sessions
    THEN sessions
    ELSE MapSet(sessions, st.id, NewSession("active"))

\* message.part.updated: INSERT INTO sessions (id, 'active') ON CONFLICT DO NOTHING
EnsureSessionIfAbsent(st) ==
  IF st.id \in DOMAIN sessions
    THEN sessions
    ELSE MapSet(sessions, st.id, NewSession("active"))

\* a plausible slip: the context size is added like the other counters
AddSessionTokensAccumulate(st) ==
  IF st.id \in DOMAIN sessions
    THEN [sessions EXCEPT ![st.id] =
            [@ EXCEPT !.input_tokens = @ + st.input,
                      !.output_tokens = @ + st.output,
                      !.reasoning_tokens = @ + st.reasoning,
                      !.cache_read_tokens = @ + st.cacheRead,
                      !.cache_write_tokens = @ + st.cacheWrite,
                      !.context_tokens = @ + st.contextSize,
                      !.peak_context_tokens = Max(@, st.contextSize),
                      !.model_provider = Coalesce(st.model_provider, @),
                      !.model_id = Coalesce(st.model_id, @)]]
    ELSE sessions

\* a plausible slip: the update leaves the peak as it was
AddSessionTokensKeepsPeak(st) ==
  IF st.id \in DOMAIN sessions
    THEN [sessions EXCEPT ![st.id] =
            [@ EXCEPT !.input_tokens = @ + st.input,
                      !.output_tokens = @ + st.output,
                      !.reasoning_tokens = @ + st.reasoning,
                      !.cache_read_tokens = @ + st.cacheRead,
                      !.cache_write_tokens = @ + st.cacheWrite,
                      !.context_tokens = st.contextSize,
                      !.model_provider = Coalesce(st.model_provider, @),
                      !.model_id = Coalesce(st.model_id, @)]]
    ELSE sessions

\* message.updated: the session token update
AddSessionTokens(st) ==
  IF st.id \in DOMAIN sessions
    THEN [sessions EXCEPT ![st.id] =
            [@ EXCEPT !.input_tokens = @ + st.input,
                      !.output_tokens = @ + st.output,
                      !.reasoning_tokens = @ + st.reasoning,
                      !.cache_read_tokens = @ + st.cacheRead,
                      !.cache_write_tokens = @ + st.cacheWrite,
                      !.context_tokens = st.contextSize,
                      !.peak_context_tokens = Max(@, st.contextSize),
                      !.model_provider = Coalesce(st.model_provider, @),
                      !.model_id = Coalesce(st.model_id, @)]]
    ELSE sessions

\* message.part.updated (step-finish): estimated_cost = estimated_cost + cost
AddSessionCost(st) ==
  IF st.id \in DOMAIN sessions
    THEN [sessions EXCEPT ![st.id] = [@ EXCEPT !.estimated_cost = @ + st.cost]]
    ELSE sessions

\* message.updated: INSERT INTO messages ... ON CONFLICT (id) DO UPDATE SET ...
UpsertMessage(st) ==
  IF st.id \in DOMAIN messages
    THEN [messages EXCEPT ![st.id] =
            [@ EXCEPT !.role = st.role,
                      !.model_provider = Coalesce(st.model_provider, @),
                      !.model_id = Coalesce(st.model_id, @),
                      !.text = Coalesce(st.text, @),
                      !.summary = Coalesce(st.summary, @),
                      !.content = Coalesce(st.content, @),
                      !.system_prompt = Coalesce(st.system_prompt, @)]]
    ELSE MapSet(messages, st.id,
            [session_id |-> st.session_id, role |-> st.role,
             model_provider |-> st.model_provider, model_id |-> st.model_id,
             text |-> st.text, summary |-> st.summary, content |-> st.content,
             system_prompt |-> st.system_prompt])

\* message.part.updated: INSERT INTO messages (id, session_id, 'assistant')
\* ON CONFLICT (id) DO UPDATE SET role = COALESCE(messages.role, 'assistant')
EnsureMessage(st) ==
  IF st.id \in DOMAIN messages
    THEN messages
    ELSE MapSet(messages, st.id,
            [session_id |-> st.session_id, role |-> "assistant",
             model_provider |-> NULL, model_id |-> NULL, text |-> NULL,
             summary |-> NULL, content |-> NULL, system_prompt |-> NULL])

\* message.part.updated (text part): UPDATE messages SET text WHERE shorter
RefreshMessageText(st) ==
  IF /\ st.id \in DOMAIN messages
     /\ \/ messages[st.id].text = NULL
        \/ Length(messages[st.id].text) < Length(st.text)
    THEN [messages EXCEPT ![st.id] = [@ EXCEPT !.text = st.text]]
    ELSE messages

\* INSERT INTO message_parts ... ON CONFLICT (id) DO NOTHING
InsertPartIfAbsent(st) ==
  IF st.id \in DOMAIN message_parts
    THEN message_parts
    ELSE MapSet(message_parts, st.id,
            [message_id |-> st.message_id, part_type |-> st.part_type,
             tool_name |-> st.tool_name, text |-> st.text, content |-> st.content])

\* a plausible slip: the length guard of the streaming update is left out
UpdateStreamingPartUnguarded(st) ==
  IF st.id \in DOMAIN message_parts
    THEN [message_parts EXCEPT ![st.id] =
            [@ EXCEPT !.tool_name = Coalesce(st.tool_name, @),
                      !.text = st.text, !.content = st.content]]
    ELSE message_parts

\* streaming regime: UPDATE message_parts ... WHERE text IS NULL OR LENGTH(text) < LENGTH(new)
UpdateStreamingPart(st) ==
  IF /\ st.id \in DOMAIN message_parts
     /\ \/ message_parts[st.id].text = NULL
        \/ Length(message_parts[st.id].text) < Length(st.text)
    THEN [message_parts EXCEPT ![st.id] =
            [@ EXCEPT !.tool_name = Coalesce(st.tool_name, @),
                      !.text = st.text, !.content = st.content]]
    ELSE message_parts

\* JS side: statusPriority[part.state?.status || "pending"] || 0
statusPriority(status) ==
  CASE status = "pending" -> 1
    [] status = "running" -> 2
    [] status = "completed" -> 3
    [] status = "error" -> 3
    [] OTHER -> 0

IncomingPriority(part) ==
  statusPriority(Val(OrElse(IF part.state = NULL THEN NULL ELSE Val(part.state).status,
                            Some("pending"))))

\* SQL side: COALESCE(CASE (content->'state'->>'status') WHEN ... ELSE 0 END, 0)
StoredPriority(content) ==
  IF content = NULL \/ Val(content).state = NULL \/ Val(Val(content).state).status = NULL
    THEN 0
    ELSE CASE Val(Val(Val(content).state).status) = "pending" -> 1
           [] Val(Val(Val(content).state).status) = "running" -> 2
           [] Val(Val(Val(content).state).status) = "completed" -> 3
           [] Val(Val(Val(content).state).status) = "error" -> 3
           [] OTHER -> 0

\* a plausible slip: the priority guard of the status update is left out
UpdateStatusPartUnguarded(st) ==
  IF st.id \in DOMAIN message_parts
    THEN [message_parts EXCEPT ![st.id] =
            [@ EXCEPT !.tool_name = Coalesce(st.tool_name, @),
                      !.text = Coalesce(st.text, @), !.content = st.content]]
    ELSE message_parts

\* status regime: UPDATE message_parts ... WHERE currentPriority >= stored priority
UpdateStatusPart(st) ==
  IF /\ st.id \in DOMAIN message_parts
     /\ st.priority >= StoredPriority(message_parts[st.id].content)
    THEN [message_parts EXCEPT ![st.id] =
            [@ EXCEPT !.tool_name = Coalesce(st.tool_name, @),
                      !.text = Coalesce(st.text, @), !.content = st.content]]
    ELSE message_parts

\* jsonb_set(COALESCE(content, '{"state":{}}'), '{state,output}', output): the
\* path's last key is created, its parent "state" is not
JsonbSetStateOutput(content, output) ==
  LET c == IF content = NULL THEN [state |-> Some([status |-> NULL, output |-> NULL])]
                            ELSE Val(content)
  IN IF c.state = NULL
       THEN Some(c)
       ELSE Some([c EXCEPT !.state = Some([Val(@) EXCEPT !.output = output])])

\* a plausible slip: the `IS NULL` condition on the stored output is left out
AnnotatePartOutputUnguarded(st) ==
  IF st.id \in DOMAIN message_parts
    THEN [message_parts EXCEPT ![st.id] =
            [@ EXCEPT !.content = JsonbSetStateOutput(@, st.output)]]
    ELSE message_parts

\* tool.execute.after: UPDATE message_parts SET content = jsonb_set(...)
\* WHERE id = partId AND (content->'state'->>'output') IS NULL
AnnotatePartOutput(st) ==
  IF /\ st.id \in DOMAIN message_parts
     /\ LET c == message_parts[st.id].content
        IN c = NULL \/ Val(c).state = NULL \/ Val(Val(c).state).output = NULL
    THEN [message_parts EXCEPT ![st.id] =
            [@ EXCEPT !.content = JsonbSetStateOutput(@, st.output)]]
    ELSE message_parts

\* a plausible slip: the insert replaces the open row of the same tool and
\* session instead of adding one
InsertToolExecutionReplaces(st) ==
  {r \in tool_executions : ~ (/\ r.session_id = st.session_id
                               /\ r.tool_name = st.tool_name
                               /\ r.completed_at = NULL)} \cup
    {[correlation_id |-> st.correlation_id, session_id |-> st.session_id,
      tool_name |-> st.tool_name, args |-> st.args, result |-> NULL,
      started_at |-> Some(st.started_at), completed_at |-> NULL,
      duration_ms |-> NULL, success |-> NULL]}

\* tool.execute.before: INSERT INTO tool_executions (..., started_at)
InsertToolExecution(st) ==
  tool_executions \cup
    {[correlation_id |-> st.correlation_id, session_id |-> st.session_id,
      tool_name |-> st.tool_name, args |-> st.args, result |-> NULL,
      started_at |-> Some(st.started_at), completed_at |-> NULL,
      duration_ms |-> NULL, success |-> NULL]}

\* a plausible slip: the completion leaves the duration out
CompleteToolExecutionNoDuration(st) ==
  {IF r.correlation_id = st.correlation_id
     THEN [r EXCEPT !.result = st.result,
                    !.completed_at = Some(st.completed_at),
                    !.success = Some(TRUE)]
     ELSE r : r \in tool_executions}

\* tool.execute.after (pending): UPDATE tool_executions ... WHERE correlation_id = ...
CompleteToolExecution(st) ==
  {IF r.correlation_id = st.correlation_id
     THEN [r EXCEPT !.result = st.result,
                    !.completed_at = Some(st.completed_at),
                    !.duration_ms = Some(st.duration_ms),
                    !.success = Some(TRUE)]
     ELSE r : r \in tool_executions}

\* a plausible slip: the synthesized row claims a start time
InsertOrphanToolExecutionStarted(st) ==
  tool_executions \cup
    {[correlation_id |-> st.correlation_id, session_id |-> st.session_id,
      tool_name |-> st.tool_name, args |-> st.args, result |-> st.result,
      started_at |-> Some(st.completed_at), completed_at |-> Some(st.completed_at),
      duration_ms |-> Some(0), success |-> Some(TRUE)]}

\* tool.execute.after (no pending): INSERT INTO tool_executions (..., completed_at, success)
InsertOrphanToolExecution(st) ==
  tool_executions \cup
    {[correlation_id |-> st.correlation_id, session_id |-> st.session_id,
      tool_name |-> st.tool_name, args |-> st.args, result |-> st.result,
      started_at |-> NULL, completed_at |-> Some(st.completed_at),
      duration_ms |-> NULL, success |-> Some(TRUE)]}

\* session.error: INSERT INTO session_errors
InsertSessionError(st) ==
  Append(session_errors,
         [session_id |-> st.session_id, error_type |-> st.error_type,
          error_message |-> st.error_message])

\* session.compacted: INSERT INTO compactions (...) VALUES (the counters read)
InsertCompaction(st) ==
  Append(compactions,
         [session_id |-> st.session_id,
          context_tokens_before |-> st.context_tokens_before,
          cumulative_input_tokens |-> st.cumulative_input_tokens,
          cumulative_output_tokens |-> st.cumulative_output_tokens,
          cumulative_cache_read |-> st.cumulative_cache_read,
          cumulative_cache_write |-> st.cumulative_cache_write,
          cumulative_reasoning |-> st.cumulative_reasoning,
          cumulative_cost |-> st.cumulative_cost])

\* a plausible slip: the reset clears the cumulative counters as well
CompactSessionResetsTotals(st) ==
  IF st.id \in DOMAIN sessions
    THEN [sessions EXCEPT ![st.id] =
            [@ EXCEPT !.status = "compacted",
                      !.peak_context_tokens =
                         Max(sessions[st.id].peak_context_tokens,
                             sessions[st.id].context_tokens),
                      !.context_tokens = 0,
                      !.input_tokens = 0,
                      !.output_tokens = 0,
                      !.compaction_count = @ + 1]]
    ELSE sessions

\* session.compacted: UPDATE sessions SET status = 'compacted',
\* peak_context_tokens = GREATEST(peak_context_tokens, context_tokens),
\* context_tokens = 0, compaction_count = compaction_count + 1
CompactSession(st) ==
  IF st.id \in DOMAIN sessions
    THEN [sessions EXCEPT ![st.id] =
            [@ EXCEPT !.status = "compacted",
                      !.peak_context_tokens =
                         Max(sessions[st.id].peak_context_tokens,
                             sessions[st.id].context_tokens),
                      !.context_tokens = 0,
                      !.compaction_count = @ + 1]]
    ELSE sessions

\* The foreign keys of schema.sql: the statement raises when the row it
\* inserts references a row that does not exist.
ViolatesForeignKey(st) ==
  CASE st.op \in {"UpsertMessage", "EnsureMessage"} ->
         st.id \notin DOMAIN messages /\ st.session_id \notin DOMAIN sessions
    [] st.op = "InsertPartIfAbsent" ->
         st.id \notin DOMAIN message_parts /\ st.message_id \notin DOMAIN messages
    [] st.op \in {"InsertToolExecution", "InsertOrphanToolExecution",
                  "InsertSessionError", "InsertCompaction"} ->
         st.session_id \notin DOMAIN sessions
    [] OTHER -> FALSE

\* The store runs one statement.
Execute(st) ==
  CASE st.op = "UpsertSessionCreated" ->
         sessions' = UpsertSessionCreated(st)
         /\ UNCHANGED <<messages, message_parts, tool_executions, session_errors, compactions>>
    [] st.op = "UpdateSessionInfo" ->
         sessions' = UpdateSessionInfo(st)
         /\ UNCHANGED <<messages, message_parts, tool_executions, session_errors, compactions>>
    [] st.op = "SetSessionStatus" ->
         sessions' = SetSessionStatus(st)
         /\ UNCHANGED <<messages, message_parts, tool_executions, session_errors, compactions>>
    [] st.op = "MarkSessionDeleted" ->
         sessions' = MarkSessionDeleted(st)
         /\ UNCHANGED <<messages, message_parts, tool_executions, session_errors, compactions>>
    [] st.op = "EnsureSessionTouch" ->
         sessions' = EnsureSessionTouch(st)
         /\ UNCHANGED <<messages, message_parts, tool_executions, session_errors, compactions>>
    [] st.op = "EnsureSessionIfAbsent" ->
         sessions' = EnsureSessionIfAbsent(st)
         /\ UNCHANGED <<messages, message_parts, tool_executions, session_errors, compactions>>
    [] st.op = "AddSessionTokens" ->
         sessions' = AddSessionTokens(st)
         /\ UNCHANGED <<messages, message_parts, tool_executions, session_errors, compactions>>
    [] st.op = "AddSessionCost" ->
         sessions' = AddSessionCost(st)
         /\ UNCHANGED <<messages, message_parts, tool_executions, session_errors, compactions>>
    [] st.op = "UpsertMessage" ->
         messages' = UpsertMessage(st)
         /\ UNCHANGED <<sessions, message_parts, tool_executions, session_errors, compactions>>
    [] st.op = "EnsureMessage" ->
         messages' = EnsureMessage(st)
         /\ UNCHANGED <<sessions, message_parts, tool_executions, session_errors, compactions>>
    [] st.op = "RefreshMessageText" ->
         messages' = RefreshMessageText(st)
         /\ UNCHANGED <<sessions, message_parts, tool_executions, session_errors, compactions>>
    [] st.op = "InsertPartIfAbsent" ->
         message_parts' = InsertPartIfAbsent(st)
         /\ UNCHANGED <<sessions, messages, tool_executions, session_errors, compactions>>
    [] st.op = "UpdateStreamingPart" ->
         message_parts' = UpdateStreamingPart(st)
         /\ UNCHANGED <<sessions, messages, tool_executions, session_errors, compactions>>
    [] st.op = "UpdateStatusPart" ->
         message_parts' = UpdateStatusPart(st)
         /\ UNCHANGED <<sessions, messages, tool_executions, session_errors, compactions>>
    [] st.op = "AnnotatePartOutput" ->
         message_parts' = AnnotatePartOutput(st)
         /\ UNCHANGED <<sessions, messages, tool_executions, session_errors, compactions>>
    [] st.op = "InsertToolExecution" ->
         tool_executions' = InsertToolExecution(st)
         /\ UNCHANGED <<sessions, messages, message_parts, session_errors, compactions>>
    [] st.op = "CompleteToolExecution" ->
         tool_executions' = CompleteToolExecution(st)
         /\ UNCHANGED <<sessions, messages, message_parts, session_errors, compactions>>
    [] st.op = "InsertOrphanToolExecution" ->
         tool_executions' = InsertOrphanToolExecution(st)
         /\ UNCHANGED <<sessions, messages, message_parts, session_errors, compactions>>
    [] st.op = "InsertSessionError" ->
         session_errors' = InsertSessionError(st)
         /\ UNCHANGED <<sessions, messages, message_parts, tool_executions, compactions>>
    [] st.op = "InsertCompaction" ->
         compactions' = InsertCompaction(st)
         /\ UNCHANGED <<sessions, messages, message_parts, tool_executions,
                        session_errors>>
    [] st.op = "CompactSession" ->
         sessions' = CompactSession(st)
         /\ UNCHANGED <<messages, message_parts, tool_executions, session_errors, compactions>>
    [] st.op = "SelectSession" ->
         UNCHANGED storeVars

----------------------------------------------------------------------------
(* The write-behind dispatcher, src/db.ts fireAndForget / safeQuery.       *)
(* A task is [kind, key, steps, onError, observed]: kind and key name the   *)
(* call site and the entity it writes, steps are the statements its        *)
(* queryFn awaits one after the other, onError says whether the call       *)
(* passes a callback, observed is true until the timeout of Promise.race   *)
(* has won: the queryFn then goes on in the store with nobody listening.   *)

Task(kind, key, steps, onError) ==
  [kind |-> kind, key |-> key, steps |-> steps, onError |-> onError,
   observed |-> TRUE]

Tag(t) == [kind |-> t.kind, key |-> t.key]

\* a plausible slip: the admission check is left out
fireAndForgetUngated(inflight, t) == BagAdd(inflight, t)

\* safeQuery admits the operation only when the gate is healthy
fireAndForget(inflight, t) ==
  IF isDatabaseHealthy THEN BagAdd(inflight, t) ELSE inflight

RECURSIVE fireAll(_, _)
fireAll(inflight, ts) ==
  IF ts = <<>> THEN inflight
  ELSE fireAll(fireAndForget(inflight, Head(ts)), Tail(ts))

\* A handler dispatches its write-behind tasks, in program order.
Dispatch(ts) ==
  /\ tasks' = fireAll(tasks, ts)
  /\ lost' = lost \cup {Tag(ts[i]) : i \in {j \in DOMAIN ts :
                                            DOMAIN fireAndForget(EmptyMap, ts[j]) = {}}}

\* The host delivers a notification to a registered hook.
Deliver(hook, ev) ==
  /\ hook \in hooks
  /\ nEvents < MaxEvents
  /\ nEvents' = nEvents + 1
  /\ lastEv' = ev
  /\ delivered' = delivered \cup {ev}

----------------------------------------------------------------------------
(* DatabasePlugin and the handlers of src/index.ts *)

\* a plausible slip: the hooks are returned whatever the probe said
HooksAfterProbeAlways(connected) == AllHooks

\* DatabasePlugin: `if (!connected) return {}`, else the four hooks
HooksAfterProbe(connected) == IF connected THEN AllHooks ELSE {}

\* DatabasePlugin with ensureConnection: the startup probe
DatabasePlugin(connected) ==
  /\ probe = "pending"
  /\ probe' = (IF connected THEN "ok" ELSE "failed")
  /\ hooks' = HooksAfterProbe(connected)
  /\ IF connected THEN markHealthy ELSE markUnhealthy
  /\ UNCHANGED <<now, raised, mapVars, storeVars, tasks, errorLog, corrSeq,
                 nEvents, nFaults, nTicks, lastEv, histVars>>

Registered(hook) == probe # "pending" /\ hook \in hooks

\* case "session.created"
SessionCreated(info) ==
  /\ Registered("event")
  /\ Deliver("event", [type |-> "session.created", info |-> info])
  /\ Dispatch(<<Task("session.created", info.id,
                     <<[op |-> "UpsertSessionCreated", id |-> info.id,
                        title |-> OrNull(info.title),
                        parent_id |-> OrNull(info.parentID),
                        project_id |-> OrNull(info.projectID),
                        directory |-> OrNull(info.directory)]>>, TRUE)>>)
  /\ UNCHANGED <<probe, hooks, raised, now, gateVars, mapVars, storeVars, errorLog, corrSeq,
                 nFaults, nTicks, execLog>>

\* case "session.updated"
SessionUpdated(info) ==
  /\ Registered("event")
  /\ Deliver("event", [type |-> "session.updated", info |-> info])
  /\ Dispatch(<<Task("session.updated", info.id,
                     <<[op |-> "UpdateSessionInfo", id |-> info.id,
                        title |-> OrNull(info.title),
                        share_url |-> OrNull(info.shareUrl)]>>, TRUE)>>)
  /\ UNCHANGED <<probe, hooks, raised, now, gateVars, mapVars, storeVars, errorLog, corrSeq,
                 nFaults, nTicks, execLog>>

\* a plausible slip: session.deleted leaves the token-applied set alone
SessionDeletedKeepsSet(info) ==
  /\ Registered("event")
  /\ Deliver("event", [type |-> "session.deleted", info |-> info])
  /\ Dispatch(<<Task("session.deleted", info.id,
                     <<[op |-> "MarkSessionDeleted", id |-> info.id]>>, TRUE)>>)
  /\ UNCHANGED <<probe, hooks, raised, now, gateVars, mapVars, storeVars, errorLog, corrSeq,
                 nFaults, nTicks, execLog>>

\* case "session.deleted"
SessionDeleted(info) ==
  /\ Registered("event")
  /\ Deliver("event", [type |-> "session.deleted", info |-> info])
  /\ Dispatch(<<Task("session.deleted", info.id,
                     <<[op |-> "MarkSessionDeleted", id |-> info.id]>>, TRUE)>>)
  /\ tokensCountedBySession' = MapDelete(tokensCountedBySession, info.id)
  /\ UNCHANGED <<probe, hooks, raised, now, gateVars, pendingExecutions, callIdToPartId,
                 callIdTimestamps, pendingUserMessages, storeVars, errorLog, corrSeq,
                 nFaults, nTicks, execLog>>

\* a plausible slip: the `if (sessionID)` guard is left out
SessionErrorTasksUnguarded(sessionID, error) ==
  LET sid == IF sessionID = NULL THEN "undefined" ELSE Val(sessionID)
  IN <<Task("session.error", sid,
            <<[op |-> "InsertSessionError", session_id |-> sid,
               error_type |-> OrElse(error.name, Some("unknown")),
               error_message |-> OrNull(error.message)],
              [op |-> "SetSessionStatus", id |-> sid, status |-> "error"]>>,
            FALSE)>>

\* case "session.error": what the handler dispatches
SessionErrorTasks(sessionID, error) ==
  IF Truthy(sessionID)
    THEN <<Task("session.error", Val(sessionID),
                <<[op |-> "InsertSessionError", session_id |-> Val(sessionID),
                   error_type |-> OrElse(error.name, Some("unknown")),
                   error_message |-> OrNull(error.message)],
                  [op |-> "SetSessionStatus", id |-> Val(sessionID),
                   status |-> "error"]>>,
                FALSE)>>
    ELSE <<>>

\* case "session.error"
SessionError(sessionID, error) ==
  /\ Registered("event")
  /\ Deliver("event", [type |-> "session.error", sessionID |-> sessionID,
                       error |-> error])
  /\ Dispatch(SessionErrorTasks(sessionID, error))
  /\ UNCHANGED <<probe, hooks, raised, now, gateVars, mapVars, storeVars, errorLog, corrSeq,
                 nFaults, nTicks, execLog>>

\* a plausible slip: an exception raised in the handler leaves the handler
EscapesUncaught(hook) == {hook}

\* the try/catch of the handler: what an exception raised inside it adds to
\* the hooks whose call raised to the host
Escapes(hook) == {}

\* a plausible slip: the `if (sessionState)` guard is left out and a snapshot
\* of zeros is inserted when the read gave no row
CompactedTasksAlwaysSnapshot(sessionID, row) ==
  <<Task("compacted.insert", sessionID,
         <<[op |-> "InsertCompaction", session_id |-> sessionID,
            context_tokens_before |->
              IF row # NULL THEN Val(row).context_tokens ELSE 0,
            cumulative_input_tokens |->
              IF row # NULL THEN Val(row).input_tokens ELSE 0,
            cumulative_output_tokens |->
              IF row # NULL THEN Val(row).output_tokens ELSE 0,
            cumulative_cache_read |->
              IF row # NULL THEN Val(row).cache_read_tokens ELSE 0,
            cumulative_cache_write |->
              IF row # NULL THEN Val(row).cache_write_tokens ELSE 0,
            cumulative_reasoning |->
              IF row # NULL THEN Val(row).reasoning_tokens ELSE 0,
            cumulative_cost |->
              IF row # NULL THEN Val(row).estimated_cost ELSE 0]>>, FALSE),
    Task("compacted.update", sessionID,
         <<[op |-> "CompactSession", id |-> sessionID]>>, FALSE)>>

\* session.compacted after its await: the tasks it dispatches for the row read
CompactedTasks(sessionID, row) ==
  (IF row # NULL
     THEN <<Task("compacted.insert", sessionID,
                 <<[op |-> "InsertCompaction", session_id |-> sessionID,
                    context_tokens_before |-> Val(row).context_tokens,
                    cumulative_input_tokens |-> Val(row).input_tokens,
                    cumulative_output_tokens |-> Val(row).output_tokens,
                    cumulative_cache_read |-> Val(row).cache_read_tokens,
                    cumulative_cache_write |-> Val(row).cache_write_tokens,
                    cumulative_reasoning |-> Val(row).reasoning_tokens,
                    cumulative_cost |-> Val(row).estimated_cost]>>, FALSE)>>
     ELSE <<>>)
  \o <<Task("compacted.update", sessionID,
            <<[op |-> "CompactSession", id |-> sessionID]>>, FALSE)>>

\* session.compacted: the read the handler awaits through safeQuery
ReadTask(sessionID) ==
  Task("compacted.read", sessionID,
       <<[op |-> "SelectSession", id |-> sessionID]>>, FALSE)

\* case "session.compacted".  With a healthy gate safeQuery starts the read and
\* the handler is suspended on it until ReadReturns, ReadFails or ReadTimesOut.
\* With an unhealthy gate safeQuery returns undefined at once: no row, the
\* session update is submitted (and dropped by the same gate) and the
\* session's token-applied set is deleted.
SessionCompacted(sessionID) ==
  /\ Registered("event")
  /\ Deliver("event", [type |-> "session.compacted", sessionID |-> sessionID])
  /\ IF isDatabaseHealthy
       THEN /\ tasks' = BagAdd(tasks, ReadTask(sessionID))
            /\ UNCHANGED <<lost, tokensCountedBySession>>
       ELSE /\ Dispatch(CompactedTasks(sessionID, NULL))
            /\ tokensCountedBySession' = MapDelete(tokensCountedBySession, sessionID)
  /\ UNCHANGED <<probe, hooks, raised, now, gateVars, pendingExecutions,
                 callIdToPartId, callIdTimestamps, pendingUserMessages, storeVars,
                 errorLog, corrSeq, nFaults, nTicks, execLog>>

\* A handler body throws before it has dispatched anything (a payload without
\* the properties the handler dereferences): the catch at the handler boundary
\* logs the error; the catch of tool.execute.after also drops the call's
\* entries from the three call-id maps.
HandlerThrows(hook, callID) ==
  /\ Registered(hook)
  /\ Deliver(hook, [type |-> "throw", hook |-> hook, callID |-> callID])
  /\ errorLog' = errorLog + 1
  /\ raised' = raised \cup Escapes(hook)
  /\ IF hook = "tool.execute.after"
       THEN /\ pendingExecutions' = MapDelete(pendingExecutions, callID)
            /\ callIdToPartId' = MapDelete(callIdToPartId, callID)
            /\ callIdTimestamps' = MapDelete(callIdTimestamps, callID)
       ELSE UNCHANGED <<pendingExecutions, callIdToPartId, callIdTimestamps>>
  /\ UNCHANGED <<probe, hooks, now, gateVars, pendingUserMessages,
                 tokensCountedBySession, storeVars, tasks, corrSeq, nFaults,
                 nTicks, lost, execLog>>

\* JS `a ?? d` on an optional number
Nullish(o, d) == IF o = NULL THEN d ELSE Val(o)

\* parts.filter(p => p.type === "text" && p.text).map(p => p.text)
RECURSIVE TextsOf(_)
TextsOf(parts) ==
  IF parts = <<>> THEN <<>>
  ELSE IF Head(parts).type = "text" /\ Truthy(Head(parts).text)
         THEN <<Val(Head(parts).text)>> \o TextsOf(Tail(parts))
         ELSE TextsOf(Tail(parts))

\* Array.prototype.join("\n")
RECURSIVE JoinLines(_)
JoinLines(texts) ==
  IF texts = <<>> THEN ""
  ELSE IF Len(texts) = 1 THEN Head(texts)
  ELSE Head(texts) \o "\n" \o JoinLines(Tail(texts))

\* a plausible slip: only the first buffered text is taken
PendingTextFirst(parts) ==
  IF TextsOf(parts) = <<>> THEN NULL ELSE OrNull(Some(Head(TextsOf(parts))))

\* messageContent.filter(...).map(...).join("\n") || null
PendingText(parts) == OrNull(Some(JoinLines(TextsOf(parts))))

\* info.providerID || info.model?.providerID || null
ModelProvider(info) ==
  OrNull(OrElse(info.providerID,
                IF info.model = NULL THEN NULL ELSE Val(info.model).providerID))

\* info.modelID || info.model?.modelID || null
ModelId(info) ==
  OrNull(OrElse(info.modelID,
                IF info.model = NULL THEN NULL ELSE Val(info.model).modelID))

\* message.updated: the pending user message the handler consumes, if any
PendingFor(info) ==
  IF info.role = "user" /\ info.sessionID \in DOMAIN pendingUserMessages
    THEN Some(pendingUserMessages[info.sessionID])
    ELSE NULL

\* message.updated: the values of the message upsert
MessageStatement(info) ==
  LET pending == PendingFor(info)
      usePending == pending # NULL /\ info.parts = NULL
      messageContent == IF usePending THEN Some(Val(pending).parts) ELSE info.parts
      textContent == IF usePending THEN PendingText(Val(pending).parts) ELSE NULL
      system0 == OrNull(info.system)
      systemPrompt == IF pending # NULL /\ system0 = NULL
                           /\ Truthy(Val(pending).systemPrompt)
                        THEN Val(pending).systemPrompt ELSE system0
  IN [op |-> "UpsertMessage", id |-> info.id, session_id |-> info.sessionID,
      role |-> info.role,
      model_provider |-> ModelProvider(info),
      model_id |-> ModelId(info),
      text |-> textContent,
      summary |-> OrNull(info.summary),
      content |-> messageContent,
      system_prompt |-> systemPrompt]

\* a plausible slip: the token-applied set is not consulted
CountsTokensAlways(info) ==
  /\ info.role = "assistant"
  /\ info.tokens # NULL
  /\ \/ Nullish(Val(info.tokens).input, 0) > 0
     \/ Nullish(Val(info.tokens).output, 0) > 0

\* a plausible slip: an update without input and output tokens counts too
CountsTokensAnyCount(info) ==
  /\ info.role = "assistant"
  /\ info.tokens # NULL
  /\ ~ (/\ info.sessionID \in DOMAIN tokensCountedBySession
        /\ info.id \in DOMAIN tokensCountedBySession[info.sessionID])

\* message.updated: the conditions under which the tokens are counted
CountsTokens(info) ==
  /\ info.role = "assistant"
  /\ info.tokens # NULL
  /\ ~ (/\ info.sessionID \in DOMAIN tokensCountedBySession
        /\ info.id \in DOMAIN tokensCountedBySession[info.sessionID])
  /\ \/ Nullish(Val(info.tokens).input, 0) > 0
     \/ Nullish(Val(info.tokens).output, 0) > 0

\* message.updated: the session token update
TokenStatement(info) ==
  LET t == Val(info.tokens)
      inputTokens == Nullish(t.input, 0)
      cacheRead == Nullish(t.cacheRead, 0)
  IN [op |-> "AddSessionTokens", id |-> info.sessionID,
      input |-> inputTokens, output |-> Nullish(t.output, 0),
      reasoning |-> Nullish(t.reasoning, 0), cacheRead |-> cacheRead,
      cacheWrite |-> Nullish(t.cacheWrite, 0),
      contextSize |-> inputTokens + cacheRead,
      model_provider |-> ModelProvider(info),
      model_id |-> ModelId(info)]

\* case "message.updated"
MessageUpdated(info) ==
  /\ Registered("event")
  /\ Deliver("event", [type |-> "message.updated", info |-> info])
  /\ Dispatch(
       <<Task("message.session", info.sessionID,
              <<[op |-> "EnsureSessionTouch", id |-> info.sessionID]>>, FALSE),
         Task("message.upsert", info.id, <<MessageStatement(info)>>, TRUE)>>
       \o (IF CountsTokens(info)
             THEN <<Task("message.tokens", info.id, <<TokenStatement(info)>>, TRUE)>>
             ELSE <<>>))
  /\ pendingUserMessages' =
       IF PendingFor(info) # NULL
         THEN MapDelete(pendingUserMessages, info.sessionID)
         ELSE pendingUserMessages
  /\ tokensCountedBySession' =
       IF CountsTokens(info)
         THEN MapSet(tokensCountedBySession, info.sessionID,
                MapSet(IF info.sessionID \in DOMAIN tokensCountedBySession
                         THEN tokensCountedBySession[info.sessionID]
                         ELSE EmptyMap,
                       info.id, now))
         ELSE tokensCountedBySession
  /\ UNCHANGED <<probe, hooks, raised, now, gateVars, pendingExecutions, callIdToPartId,
                 callIdTimestamps, storeVars, errorLog, corrSeq, nFaults, nTicks,
                 execLog>>

\* message.part.updated: the part row write, one task of two chained statements
PartWriteTask(part) ==
  LET toolName == IF part.type = "tool" THEN OrNull(part.tool) ELSE NULL
      textContent == OrNull(part.text)
      insert == [op |-> "InsertPartIfAbsent", id |-> part.id,
                 message_id |-> part.messageID, part_type |-> part.type,
                 tool_name |-> toolName, text |-> textContent,
                 content |-> Some(part)]
  IN IF part.type \in {"text", "reasoning"}
       THEN Task("part.write", part.id,
                 <<insert>> \o
                 (IF textContent # NULL
                    THEN <<[op |-> "UpdateStreamingPart", id |-> part.id,
                            tool_name |-> toolName, text |-> textContent,
                            content |-> Some(part)]>>
                    ELSE <<>>),
                 FALSE)
       ELSE Task("part.write", part.id,
                 <<insert,
                   [op |-> "UpdateStatusPart", id |-> part.id,
                    tool_name |-> toolName, text |-> textContent,
                    content |-> Some(part),
                    priority |-> IncomingPriority(part)]>>,
                 FALSE)

\* message.part.updated: the tasks the handler dispatches, in program order
PartTasks(part) ==
  (IF part.type = "step-finish" /\ part.cost # NULL
     THEN <<Task("part.cost", part.id,
                 <<[op |-> "AddSessionCost", id |-> part.sessionID,
                    cost |-> Val(part.cost)]>>, FALSE)>>
     ELSE <<>>)
  \o <<Task("part.message", part.messageID,
            <<[op |-> "EnsureMessage", id |-> part.messageID,
               session_id |-> part.sessionID]>>, FALSE),
       Task("part.session", part.sessionID,
            <<[op |-> "EnsureSessionIfAbsent", id |-> part.sessionID]>>, FALSE),
       PartWriteTask(part)>>
  \o (IF part.type = "text" /\ OrNull(part.text) # NULL
        THEN <<Task("part.text", part.messageID,
                    <<[op |-> "RefreshMessageText", id |-> part.messageID,
                       text |-> OrNull(part.text)]>>, FALSE)>>
        ELSE <<>>)

\* a plausible slip: the association is registered only when the gate admits
\* the part row write
PartUpdatedGated(part) ==
  /\ Registered("event")
  /\ Deliver("event", [type |-> "message.part.updated", part |-> part])
  /\ IF part.type = "tool" /\ Truthy(part.callID) /\ isDatabaseHealthy
       THEN /\ callIdToPartId' = MapSet(callIdToPartId, Val(part.callID), part.id)
            /\ callIdTimestamps' = MapSet(callIdTimestamps, Val(part.callID), now)
            /\ pendingExecutions' =
                 IF Val(part.callID) \in DOMAIN pendingExecutions
                   THEN [pendingExecutions EXCEPT
                           ![Val(part.callID)].partId = Some(part.id)]
                   ELSE pendingExecutions
       ELSE UNCHANGED <<callIdToPartId, callIdTimestamps, pendingExecutions>>
  /\ Dispatch(PartTasks(part))
  /\ UNCHANGED <<probe, hooks, raised, now, gateVars, pendingUserMessages,
                 tokensCountedBySession, storeVars, errorLog, corrSeq, nFaults,
                 nTicks, execLog>>

\* case "message.part.updated"
PartUpdated(part) ==
  /\ Registered("event")
  /\ Deliver("event", [type |-> "message.part.updated", part |-> part])
  /\ IF part.type = "tool" /\ Truthy(part.callID)
       THEN /\ callIdToPartId' = MapSet(callIdToPartId, Val(part.callID), part.id)
            /\ callIdTimestamps' = MapSet(callIdTimestamps, Val(part.callID), now)
            /\ pendingExecutions' =
                 IF Val(part.callID) \in DOMAIN pendingExecutions
                   THEN [pendingExecutions EXCEPT
                           ![Val(part.callID)].partId = Some(part.id)]
                   ELSE pendingExecutions
       ELSE UNCHANGED <<callIdToPartId, callIdTimestamps, pendingExecutions>>
  /\ Dispatch(PartTasks(part))
  /\ UNCHANGED <<probe, hooks, raised, now, gateVars, pendingUserMessages,
                 tokensCountedBySession, storeVars, errorLog, corrSeq, nFaults,
                 nTicks, execLog>>

\* "chat.message"
ChatMessage(sessionID, parts, system) ==
  /\ Registered("chat.message")
  /\ Deliver("chat.message", [type |-> "chat.message", sessionID |-> sessionID,
                              parts |-> parts, system |-> system])
  /\ Dispatch(<<Task("chat.status", sessionID,
                     <<[op |-> "SetSessionStatus", id |-> sessionID,
                        status |-> "active"]>>, FALSE)>>)
  /\ pendingUserMessages' =
       IF parts # NULL /\ Len(Val(parts)) > 0
         THEN MapSet(pendingUserMessages, sessionID,
                     [parts |-> Val(parts), systemPrompt |-> system,
                      timestamp |-> now])
         ELSE IF Truthy(system)
           THEN MapSet(pendingUserMessages, sessionID,
                       [parts |-> <<>>, systemPrompt |-> system, timestamp |-> now])
           ELSE pendingUserMessages
  /\ UNCHANGED <<probe, hooks, raised, now, gateVars, pendingExecutions, callIdToPartId,
                 callIdTimestamps, tokensCountedBySession, storeVars, errorLog,
                 corrSeq, nFaults, nTicks, execLog>>

\* generateCorrelationId: a fresh identifier
generateCorrelationId == "k" \o ToString(corrSeq + 1)

\* "tool.execute.before"
ToolExecuteBefore(callID, sessionID, tool, args) ==
  /\ Registered("tool.execute.before")
  /\ Deliver("tool.execute.before",
             [type |-> "tool.execute.before", callID |-> callID,
              sessionID |-> sessionID, tool |-> tool, args |-> args])
  /\ corrSeq' = corrSeq + 1
  /\ pendingExecutions' =
       MapSet(pendingExecutions, callID,
              [correlationId |-> generateCorrelationId, sessionId |-> sessionID,
               toolName |-> tool, args |-> args, startedAt |-> now,
               partId |-> NULL])
  /\ Dispatch(<<Task("tool.insert", generateCorrelationId,
                     <<[op |-> "InsertToolExecution",
                        correlation_id |-> generateCorrelationId,
                        session_id |-> sessionID, tool_name |-> tool,
                        args |-> args, started_at |-> now]>>, TRUE)>>)
  /\ execLog' = execLog \cup
       {[kind |-> "before", correlationId |-> generateCorrelationId,
         callID |-> callID, at |-> now, output |-> NULL]}
  /\ UNCHANGED <<probe, hooks, raised, now, gateVars, callIdToPartId, callIdTimestamps,
                 pendingUserMessages, tokensCountedBySession, storeVars,
                 errorLog, nFaults, nTicks>>

\* tool.execute.after: the output annotation of the linked part, when there is one
AnnotationSteps(partId, output) ==
  IF partId # NULL /\ Truthy(output)
    THEN <<[op |-> "AnnotatePartOutput", id |-> Val(partId), output |-> output]>>
    ELSE <<>>

\* "tool.execute.after"
ToolExecuteAfter(callID, sessionID, tool, output, metadata) ==
  /\ Registered("tool.execute.after")
  /\ Deliver("tool.execute.after",
             [type |-> "tool.execute.after", callID |-> callID,
              sessionID |-> sessionID, tool |-> tool, output |-> output,
              metadata |-> metadata])
  /\ LET hasPending == callID \in DOMAIN pendingExecutions
         partId == OrElse(IF hasPending THEN pendingExecutions[callID].partId
                                         ELSE NULL,
                          IF callID \in DOMAIN callIdToPartId
                            THEN Some(callIdToPartId[callID]) ELSE NULL)
     IN IF hasPending
          THEN LET pending == pendingExecutions[callID]
               IN /\ Dispatch(<<Task("tool.update", pending.correlationId,
                                  <<[op |-> "CompleteToolExecution",
                                     correlation_id |-> pending.correlationId,
                                     result |-> output, completed_at |-> now,
                                     duration_ms |-> now - pending.startedAt]>>
                                  \o AnnotationSteps(partId, output), FALSE)>>)
                  /\ corrSeq' = corrSeq
                  /\ execLog' = execLog \cup
                       {[kind |-> "after", correlationId |-> pending.correlationId,
                         callID |-> callID, at |-> now, output |-> output]}
          ELSE /\ Dispatch(<<Task("tool.orphan", generateCorrelationId,
                               <<[op |-> "InsertOrphanToolExecution",
                                  correlation_id |-> generateCorrelationId,
                                  session_id |-> sessionID, tool_name |-> tool,
                                  args |-> metadata, result |-> output,
                                  completed_at |-> now]>>
                               \o AnnotationSteps(partId, output), FALSE)>>)
               /\ corrSeq' = IF isDatabaseHealthy THEN corrSeq + 1 ELSE corrSeq
               /\ execLog' =
                    IF isDatabaseHealthy
                      THEN execLog \cup
                             {[kind |-> "orphan",
                               correlationId |-> generateCorrelationId,
                               callID |-> callID, at |-> now, output |-> output]}
                      ELSE execLog
  /\ pendingExecutions' = MapDelete(pendingExecutions, callID)
  /\ callIdToPartId' = MapDelete(callIdToPartId, callID)
  /\ callIdTimestamps' = MapDelete(callIdTimestamps, callID)
  /\ UNCHANGED <<probe, hooks, raised, now, gateVars, pendingUserMessages,
                 tokensCountedBySession, storeVars, errorLog, nFaults, nTicks>>

\* a plausible slip: the loop over the pending executions is left out
cleanupStaleMapsKeepsPending ==
  /\ pendingExecutions' = pendingExecutions
  /\ pendingUserMessages' =
       [x \in {k \in DOMAIN pendingUserMessages :
                 ~ (now - pendingUserMessages[k].timestamp > STALE_ENTRY_TIMEOUT_MS)}
          |-> pendingUserMessages[x]]
  /\ callIdToPartId' =
       [c \in {k \in DOMAIN callIdToPartId :
                 ~ (k \in DOMAIN callIdTimestamps
                    /\ now - callIdTimestamps[k] > STALE_ENTRY_TIMEOUT_MS)}
          |-> callIdToPartId[c]]
  /\ callIdTimestamps' =
       [c \in {k \in DOMAIN callIdTimestamps :
                 ~ (now - callIdTimestamps[k] > STALE_ENTRY_TIMEOUT_MS)}
          |-> callIdTimestamps[c]]
  /\ tokensCountedBySession' =
       LET kept(x) == [m \in {k \in DOMAIN tokensCountedBySession[x] :
                                ~ (now - tokensCountedBySession[x][k]
                                     > STALE_ENTRY_TIMEOUT_MS)}
                         |-> tokensCountedBySession[x][m]]
       IN [x \in {k \in DOMAIN tokensCountedBySession : DOMAIN kept(k) # {}}
             |-> kept(x)]

\* cleanupStaleMaps, run by setInterval(CLEANUP_INTERVAL_MS)
cleanupStaleMaps ==
  /\ pendingExecutions' =
       [c \in {k \in DOMAIN pendingExecutions :
                 ~ (now - pendingExecutions[k].startedAt > STALE_ENTRY_TIMEOUT_MS)}
          |-> pendingExecutions[c]]
  /\ pendingUserMessages' =
       [x \in {k \in DOMAIN pendingUserMessages :
                 ~ (now - pendingUserMessages[k].timestamp > STALE_ENTRY_TIMEOUT_MS)}
          |-> pendingUserMessages[x]]
  /\ callIdToPartId' =
       [c \in {k \in DOMAIN callIdToPartId :
                 ~ (k \in DOMAIN callIdTimestamps
                    /\ now - callIdTimestamps[k] > STALE_ENTRY_TIMEOUT_MS)}
          |-> callIdToPartId[c]]
  /\ callIdTimestamps' =
       [c \in {k \in DOMAIN callIdTimestamps :
                 ~ (now - callIdTimestamps[k] > STALE_ENTRY_TIMEOUT_MS)}
          |-> callIdTimestamps[c]]
  /\ tokensCountedBySession' =
       LET kept(x) == [m \in {k \in DOMAIN tokensCountedBySession[x] :
                                ~ (now - tokensCountedBySession[x][k]
                                     > STALE_ENTRY_TIMEOUT_MS)}
                         |-> tokensCountedBySession[x][m]]
       IN [x \in {k \in DOMAIN tokensCountedBySession : DOMAIN kept(k) # {}}
             |-> kept(x)]

\* The periodic sweep fires.
Sweep ==
  /\ probe # "pending"
  /\ cleanupStaleMaps
  /\ UNCHANGED <<probe, hooks, raised, now, gateVars, storeVars, tasks, errorLog, corrSeq,
                 nEvents, nFaults, nTicks, lastEv, histVars>>

\* Time passes.
Tick(d) ==
  /\ probe # "pending"
  /\ nTicks < MaxTicks
  /\ nTicks' = nTicks + 1
  /\ now' = now + d
  /\ UNCHANGED <<probe, hooks, raised, gateVars, mapVars, storeVars, tasks, errorLog,
                 corrSeq, nEvents, nFaults, lastEv, histVars>>

\* fireAndForget's catch: the callback, when the call site passed one, logs.
\* Nothing reaches the catch once the timeout has settled the race.
ErrorSink(t) == IF t.observed /\ t.onError THEN errorLog + 1 ELSE errorLog

\* a plausible slip: the late completion of an abandoned operation still
\* resets the gate
OnSuccessAlways(t) == markHealthy

\* a plausible slip: success leaves the gate as it was
OnSuccessNever(t) == UNCHANGED gateVars

\* safeQuery after the race: markHealthy when the operation won it; the
\* completion of an operation that lost to the timeout is not observed
OnSuccess(t) == IF t.observed THEN markHealthy ELSE UNCHANGED gateVars

\* safeQuery's catch: markUnhealthy for a connectivity or timeout signature;
\* the failure of an operation that lost to the timeout is not observed
OnFailure(t, message) ==
  IF t.observed /\ IsConnectivityError(message)
    THEN markUnhealthy
    ELSE UNCHANGED gateVars

\* the operation of task t is the awaited read of session.compacted
IsRead(t) == t.kind = "compacted.read"

\* The store runs the next statement of in-flight task t.  A statement that
\* violates a foreign key raises a data error: safeQuery rethrows it and the
\* rest of the task is never run.  When the last statement has succeeded
\* safeQuery calls markHealthy.
StoreStep(t) ==
  /\ t \in DOMAIN tasks
  /\ ~ IsRead(t)
  /\ LET st == Head(t.steps)
     IN IF ViolatesForeignKey(st)
          THEN /\ tasks' = BagRemove(tasks, t)
               /\ lost' = lost \cup {Tag(t)}
               /\ errorLog' = ErrorSink(t)
               /\ OnFailure(t, ForeignKeyMessage)
               /\ UNCHANGED storeVars
          ELSE /\ Execute(st)
               /\ UNCHANGED <<lost, errorLog>>
               /\ IF Len(t.steps) = 1
                    THEN /\ tasks' = BagRemove(tasks, t)
                         /\ OnSuccess(t)
                    ELSE /\ tasks' = BagAdd(BagRemove(tasks, t),
                                            [t EXCEPT !.steps = Tail(@)])
                         /\ UNCHANGED gateVars
  /\ UNCHANGED <<probe, hooks, raised, now, mapVars, corrSeq, nEvents, nFaults,
                 nTicks, lastEv, execLog, delivered>>

\* The next statement of in-flight task t fails in the store or on the wire
\* with an error of the given message (also: the queryFn throws while it
\* builds the statement); safeQuery's catch marks the gate unhealthy for a
\* connectivity signature and rethrows to fireAndForget's catch.
StoreFault(t, message) ==
  /\ t \in DOMAIN tasks
  /\ ~ IsRead(t)
  /\ nFaults < MaxFaults
  /\ nFaults' = nFaults + 1
  /\ tasks' = BagRemove(tasks, t)
  /\ lost' = lost \cup {Tag(t)}
  /\ errorLog' = ErrorSink(t)
  /\ OnFailure(t, message)
  /\ UNCHANGED <<probe, hooks, raised, now, mapVars, storeVars, corrSeq, nEvents,
                 nTicks, lastEv, execLog, delivered>>

\* The timeout of Promise.race fires before the operation of task t has
\* completed: safeQuery rejects with "Query timeout", which its catch counts as
\* a connectivity failure; the queryFn is not cancelled and goes on unobserved.
StoreTimeout(t) ==
  /\ t \in DOMAIN tasks
  /\ ~ IsRead(t)
  /\ t.observed
  /\ nFaults < MaxFaults
  /\ nFaults' = nFaults + 1
  /\ tasks' = BagAdd(BagRemove(tasks, t), [t EXCEPT !.observed = FALSE])
  /\ lost' = lost \cup {Tag(t)}
  /\ errorLog' = ErrorSink(t)
  /\ OnFailure(t, QueryTimeoutMessage)
  /\ UNCHANGED <<probe, hooks, raised, now, mapVars, storeVars, corrSeq, nEvents,
                 nTicks, lastEv, execLog, delivered>>

\* The store answers the read session.compacted awaits: safeQuery marks the
\* gate healthy and the handler resumes, dispatches the compaction insert (when
\* a row came back) and the session update, and drops the session's
\* token-applied set.  The answer to a read that lost to the timeout is not
\* observed.
ReadReturns(t) ==
  /\ t \in DOMAIN tasks
  /\ IsRead(t)
  /\ IF t.observed
       THEN /\ markHealthy
            /\ LET row == IF t.key \in DOMAIN sessions
                            THEN Some(sessions[t.key]) ELSE NULL
                   ts == CompactedTasks(t.key, row)
               IN tasks' = IF Len(ts) = 2
                             THEN BagAdd(BagAdd(BagRemove(tasks, t), ts[1]), ts[2])
                             ELSE BagAdd(BagRemove(tasks, t), ts[1])
            /\ tokensCountedBySession' = MapDelete(tokensCountedBySession, t.key)
       ELSE /\ tasks' = BagRemove(tasks, t)
            /\ UNCHANGED <<gateVars, tokensCountedBySession>>
  /\ UNCHANGED <<probe, hooks, raised, now, pendingExecutions, callIdToPartId,
                 callIdTimestamps, pendingUserMessages, storeVars, errorLog,
                 corrSeq, nEvents, nFaults, nTicks, lastEv, histVars>>

\* The read session.compacted awaits fails: safeQuery rethrows, the handler's
\* inner `catch {}` swallows the error and the handler drops the session's
\* token-applied set.
ReadFails(t, message) ==
  /\ t \in DOMAIN tasks
  /\ IsRead(t)
  /\ nFaults < MaxFaults
  /\ nFaults' = nFaults + 1
  /\ tasks' = BagRemove(tasks, t)
  /\ OnFailure(t, message)
  /\ IF t.observed
       THEN /\ lost' = lost \cup {Tag(t)}
            /\ raised' = raised \cup Escapes("event")
            /\ tokensCountedBySession' = MapDelete(tokensCountedBySession, t.key)
       ELSE UNCHANGED <<lost, raised, tokensCountedBySession>>
  /\ UNCHANGED <<probe, hooks, now, pendingExecutions, callIdToPartId,
                 callIdTimestamps, pendingUserMessages, storeVars, errorLog,
                 corrSeq, nEvents, nTicks, lastEv, execLog, delivered>>

\* The timeout fires before the awaited read has answered: safeQuery rejects
\* with "Query timeout", the inner `catch {}` swallows it and the handler drops
\* the session's token-applied set; the read goes on unobserved.
ReadTimesOut(t) ==
  /\ t \in DOMAIN tasks
  /\ IsRead(t)
  /\ t.observed
  /\ nFaults < MaxFaults
  /\ nFaults' = nFaults + 1
  /\ tasks' = BagAdd(BagRemove(tasks, t), [t EXCEPT !.observed = FALSE])
  /\ lost' = lost \cup {Tag(t)}
  /\ OnFailure(t, QueryTimeoutMessage)
  /\ raised' = raised \cup Escapes("event")
  /\ tokensCountedBySession' = MapDelete(tokensCountedBySession, t.key)
  /\ UNCHANGED <<probe, hooks, now, pendingExecutions, callIdToPartId,
                 callIdTimestamps, pendingUserMessages, storeVars, errorLog,
                 corrSeq, nEvents, nTicks, lastEv, execLog, delivered>>

----------------------------------------------------------------------------
(* Initial states: the module has been loaded, the plugin function has not *)
(* run yet.  The database outlives the process: it is empty or already     *)
(* holds a session with a message.                                          *)

PriorSession == NewSession("created")

PriorMessage ==
  [session_id |-> "s1", role |-> "assistant", model_provider |-> NULL,
   model_id |-> NULL, text |-> NULL, summary |-> NULL, content |-> NULL,
   system_prompt |-> NULL]

InitFrom(probed, registered, failures, priorSessions, priorMessages) ==
  /\ probe = probed
  /\ hooks = registered
  /\ now = 0
  /\ consecutiveFailures = failures
  /\ lastFailureTime = 0
  /\ pendingExecutions = EmptyMap
  /\ callIdToPartId = EmptyMap
  /\ callIdTimestamps = EmptyMap
  /\ pendingUserMessages = EmptyMap
  /\ tokensCountedBySession = EmptyMap
  /\ sessions = priorSessions
  /\ messages = priorMessages
  /\ message_parts = EmptyMap
  /\ tool_executions = {}
  /\ session_errors = <<>>
  /\ compactions = <<>>
  /\ raised = {}
  /\ tasks = EmptyMap
  /\ errorLog = 0
  /\ corrSeq = 0
  /\ nEvents = 0
  /\ nFaults = 0
  /\ nTicks = 0
  /\ lastEv = [type |-> "none"]
  /\ lost = {}
  /\ execLog = {}
  /\ delivered = {}

\* the module has been loaded, the plugin function has not run yet
InitWith(priorSessions, priorMessages) ==
  InitFrom("pending", {}, 0, priorSessions, priorMessages)

----------------------------------------------------------------------------
(* Tool executions: tool.execute.before / tool.execute.after, the sweep    *)

ToolCalls == {"c1"}
ToolOutputs == {NULL, Some("a.txt")}
ToolTicks == {STALE_ENTRY_TIMEOUT_MS + 1}
FaultKinds == {"connection", "other"}

NextTool ==
  \/ \E connected \in BOOLEAN : DatabasePlugin(connected)
  \/ \E c \in ToolCalls : ToolExecuteBefore(c, "s1", "bash", Some("ls"))
  \/ \E c \in ToolCalls, o \in ToolOutputs : ToolExecuteAfter(c, "s1", "bash", o, NULL)
  \/ Sweep
  \/ \E d \in ToolTicks : Tick(d)
  \/ \E t \in DOMAIN tasks : StoreStep(t)
  \/ \E t \in DOMAIN tasks, k \in FaultKinds : StoreFault(t, k)

InitTool ==
  \E db \in {EmptyMap, "s1" :> PriorSession} : InitWith(db, EmptyMap)

SpecTool == InitTool /\ [][NextTool]_vars

\* the write-behind tasks of correlation id k have all run to completion
WritesCompleted(k) ==
  /\ \A t \in DOMAIN tasks : t.key # k
  /\ \A t \in lost : t.key # k

\* C1: whenever a tool.execute.before is followed by a tool.execute.after with
\* the same call id, then once the writes of the pair have completed exactly one
\* ToolExecution row exists for the call, with completed_at set, duration =
\* completedAt - startedAt, result = the reported output and success = true.
C1_PairedExecutionRow ==
  \A a \in execLog :
    (a.kind = "after" /\ WritesCompleted(a.correlationId)) =>
      \E b \in execLog :
        /\ b.kind = "before" /\ b.correlationId = a.correlationId
        /\ LET rows == {r \in tool_executions : r.correlation_id = a.correlationId}
           IN /\ Cardinality(rows) = 1
              /\ \A r \in rows :
                   /\ r.completed_at = Some(a.at)
                   /\ r.duration_ms = Some(a.at - b.at)
                   /\ r.result = a.output
                   /\ r.success = Some(TRUE)

\* C2: a tool.execute.after whose call id has no pending execution entry yields
\* exactly one new ToolExecution row once its insert has run: the row carries the
\* result, completed_at and success = true, and has no started_at and no duration;
\* before that, and whatever else happens, no second row is written for it.
C2_OrphanExecutionRow ==
  \A o \in execLog :
    o.kind = "orphan" =>
      LET rows == {r \in tool_executions : r.correlation_id = o.correlationId}
      IN /\ Cardinality(rows) <= 1
         /\ WritesCompleted(o.correlationId) => Cardinality(rows) = 1
         /\ \A r \in rows :
              /\ r.result = o.output
              /\ r.completed_at = Some(o.at)
              /\ r.success = Some(TRUE)
              /\ r.started_at = NULL
              /\ r.duration_ms = NULL

\* C2 witness: a call whose pending entry was consumed or swept got an after,
\* and the synthesized row is in the store
C2_Witness ==
  \E o \in execLog, b \in execLog :
    /\ o.kind = "orphan" /\ b.kind = "before" /\ b.callID = o.callID
    /\ o.callID \notin DOMAIN pendingExecutions
    /\ \E r \in tool_executions :
         r.correlation_id = o.correlationId /\ r.started_at = NULL

----------------------------------------------------------------------------
(* Message parts: message.part.updated for one part id                     *)

MaxPartEvents == 2

InitParts ==
  \/ InitWith(EmptyMap, EmptyMap)
  \/ InitWith("s1" :> PriorSession, "m1" :> PriorMessage)

PartState(status) == Some([status |-> status, output |-> NULL])

ToolPart(state) ==
  [id |-> "p1", sessionID |-> "s1", messageID |-> "m1", type |-> "tool",
   tool |-> Some("bash"), text |-> NULL, callID |-> NULL, state |-> state,
   cost |-> NULL]

StatusInputs ==
  {ToolPart(NULL)} \cup
  {ToolPart(PartState(Some(x))) : x \in {"pending", "running", "completed", "error"}}

NextStatus ==
  \/ \E connected \in BOOLEAN : DatabasePlugin(connected)
  \/ \E part \in StatusInputs : nEvents < MaxPartEvents /\ PartUpdated(part)
  \/ \E t \in DOMAIN tasks : StoreStep(t)
  \/ \E t \in DOMAIN tasks, k \in FaultKinds : StoreFault(t, k)

SpecStatus == InitParts /\ [][NextStatus]_vars

TextPart(text) ==
  [id |-> "p1", sessionID |-> "s1", messageID |-> "m1", type |-> "reasoning",
   tool |-> NULL, text |-> text, callID |-> NULL, state |-> NULL, cost |-> NULL]

TextInputs == {TextPart(x) : x \in {NULL, Some("a"), Some("ab"), Some("xy")}}

NextText ==
  \/ \E connected \in BOOLEAN : DatabasePlugin(connected)
  \/ \E part \in TextInputs : nEvents < MaxPartEvents /\ PartUpdated(part)
  \/ \E t \in DOMAIN tasks : StoreStep(t)
  \/ \E t \in DOMAIN tasks, k \in FaultKinds : StoreFault(t, k)

SpecText == InitParts /\ [][NextText]_vars

\* the message.part.updated payloads delivered so far for part id p
PartsDelivered(p) ==
  {ev.part : ev \in {d \in delivered : d.type = "message.part.updated"
                                        /\ d.part.id = p}}

\* every part write dispatched for p has run all its statements
PartWritesCompleted(p) ==
  /\ \A t \in DOMAIN tasks : ~ (t.kind = "part.write" /\ t.key = p)
  /\ [kind |-> "part.write", key |-> p] \notin lost

\* the status in the stored content of part p, NULL when there is none
StoredStatus(p) ==
  LET c == message_parts[p].content
  IN IF c = NULL \/ Val(c).state = NULL THEN NULL ELSE Val(Val(c).state).status

\* C3: for two message.part.updated events for the same status-bearing part,
\* one running and one completed, every interleaving of their insert-if-absent
\* and conditional-update statements ends with stored status completed, in
\* either order of delivery.
C3_RunningCompletedConverge ==
  (/\ PartsDelivered("p1") = {ToolPart(PartState(Some("running"))),
                              ToolPart(PartState(Some("completed")))}
   /\ PartWritesCompleted("p1"))
  => /\ "p1" \in DOMAIN message_parts
     /\ StoredStatus("p1") = Some("completed")

\* C3 witness: completed was delivered first, running last, all statements ran
C3_Witness ==
  /\ PartsDelivered("p1") = {ToolPart(PartState(Some("running"))),
                             ToolPart(PartState(Some("completed")))}
  /\ lastEv = [type |-> "message.part.updated",
               part |-> ToolPart(PartState(Some("running")))]
  /\ PartWritesCompleted("p1")
  /\ "p1" \in DOMAIN message_parts
  /\ StoredStatus("p1") = Some("completed")

\* length of a nullable text, 0 for NULL
TextLen(o) == IF o = NULL THEN 0 ELSE Length(o)

\* the longest text length among the payloads delivered for part p
LongestDelivered(p) ==
  LET lens == {TextLen(OrNull(part.text)) : part \in PartsDelivered(p)} \cup {0}
  IN CHOOSE n \in lens : \A m \in lens : m <= n

\* C4: for message.part.updated events for the same text or reasoning part, in
\* any order and interleaving of their writes, the stored text length never
\* decreases; a conditional update whose text is not strictly longer than the
\* stored text changes nothing (a null text issues no update at all); and once
\* every write has run, the stored text is a longest text delivered.
C4_StreamingTextMonotone ==
  [][/\ \A p \in DOMAIN message_parts :
          /\ p \in DOMAIN message_parts'
          /\ TextLen(message_parts'[p].text) >= TextLen(message_parts[p].text)
     /\ \A t \in DOMAIN tasks :
          (/\ Head(t.steps).op = "UpdateStreamingPart"
           /\ Head(t.steps).id \in DOMAIN message_parts
           /\ TextLen(Head(t.steps).text)
                <= TextLen(message_parts[Head(t.steps).id].text)
           /\ tasks' = BagRemove(tasks, t))
          => message_parts' = message_parts
     /\ \A t \in DOMAIN tasks' :
          t.kind = "part.write" /\ OrNull(Val(Head(t.steps).content).text) = NULL
            => Len(t.steps) = 1 /\ Head(t.steps).op = "InsertPartIfAbsent"
     /\ (PartsDelivered("p1")' # {} /\ PartWritesCompleted("p1")')
          => /\ "p1" \in DOMAIN message_parts'
             /\ TextLen(message_parts'["p1"].text) = LongestDelivered("p1")'
             /\ message_parts'["p1"].text
                  \in {OrNull(part.text) : part \in PartsDelivered("p1")'}
    ]_vars

\* C4 witness: the longer text was delivered before a shorter one, every write
\* has run and the stored text is the longer one
C4_Witness ==
  /\ PartsDelivered("p1") = {TextPart(Some("ab")), TextPart(Some("a"))}
  /\ lastEv = [type |-> "message.part.updated", part |-> TextPart(Some("a"))]
  /\ PartWritesCompleted("p1")
  /\ "p1" \in DOMAIN message_parts
  /\ message_parts["p1"].text = Some("ab")

\* the rank the specification gives a status: pending 1, running 2, completed
\* and error 3, unknown or absent 0
SpecRank(status) ==
  IF status = NULL THEN 0 ELSE statusPriority(Val(status))

\* the status a part payload reports
ReportedStatus(part) ==
  IF part.state = NULL THEN NULL ELSE Val(part.state).status

\* C6: for a status-bearing part the update is written exactly when
\* rank(incoming status) >= rank(stored status), with pending = 1, running = 2,
\* completed = error = 3 and unknown or absent = 0 on both sides, so that the
\* rank of the stored status never decreases.
C6_StatusRankGate ==
  [][/\ \A t \in DOMAIN tasks :
          (/\ Head(t.steps).op = "UpdateStatusPart"
           /\ Head(t.steps).id \in DOMAIN message_parts
           /\ tasks' = BagRemove(tasks, t)
           /\ lost' = lost)
          => LET st == Head(t.steps)
             IN IF SpecRank(ReportedStatus(Val(st.content)))
                     >= SpecRank(StoredStatus(st.id))
                  THEN message_parts'[st.id].content = st.content
                  ELSE message_parts' = message_parts
     /\ \A p \in DOMAIN message_parts :
          /\ p \in DOMAIN message_parts'
          /\ SpecRank(IF message_parts'[p].content = NULL
                           \/ Val(message_parts'[p].content).state = NULL
                        THEN NULL
                        ELSE Val(Val(message_parts'[p].content).state).status)
               >= SpecRank(StoredStatus(p))
    ]_vars

----------------------------------------------------------------------------
(* Token accounting: message.updated for assistant messages, the sweep     *)

TokenCounts ==
  Some([input |-> Some(5), output |-> Some(2), reasoning |-> Some(1),
        cacheRead |-> Some(3), cacheWrite |-> Some(1)])

AssistantInfo(id) ==
  [id |-> id, sessionID |-> "s1", role |-> "assistant", parts |-> NULL,
   system |-> NULL, providerID |-> Some("anthropic"), modelID |-> Some("opus"),
   model |-> NULL, summary |-> NULL, tokens |-> TokenCounts]

TokenInputs == {AssistantInfo(id) : id \in {"m2", "m3"}}

NextTokens ==
  \/ \E connected \in BOOLEAN : DatabasePlugin(connected)
  \/ \E info \in TokenInputs : MessageUpdated(info)
  \/ Sweep
  \/ \E d \in ToolTicks : Tick(d)
  \/ \E t \in DOMAIN tasks : StoreStep(t)
  \/ \E t \in DOMAIN tasks, k \in FaultKinds : StoreFault(t, k)

SpecTokens == InitTool /\ [][NextTokens]_vars

\* the distinct assistant message.updated payloads with token counts delivered
TokenEvents ==
  {ev.info : ev \in {d \in delivered : /\ d.type = "message.updated"
                                        /\ d.info.role = "assistant"
                                        /\ d.info.tokens # NULL}}

\* the sum of token field f over a set of payloads
RECURSIVE SumTokens(_, _)
SumTokens(S, f) ==
  IF S = {} THEN 0
  ELSE LET x == CHOOSE y \in S : TRUE
       IN Nullish(Val(x.tokens)[f], 0) + SumTokens(S \ {x}, f)

\* C5: delivering the same assistant message.updated event (same session, same
\* message id, same token counts) twice increments the session's token totals
\* exactly once: a repeated delivery adds nothing to the input, output,
\* reasoning, cache-read or cache-write counter, so each counter is at most the
\* sum over the distinct events delivered.
C5_TokensCountedOnce ==
  \A x \in DOMAIN sessions :
    LET evs == {e \in TokenEvents : e.sessionID = x}
    IN /\ sessions[x].input_tokens <= SumTokens(evs, "input")
       /\ sessions[x].output_tokens <= SumTokens(evs, "output")
       /\ sessions[x].reasoning_tokens <= SumTokens(evs, "reasoning")
       /\ sessions[x].cache_read_tokens <= SumTokens(evs, "cacheRead")
       /\ sessions[x].cache_write_tokens <= SumTokens(evs, "cacheWrite")

----------------------------------------------------------------------------
(* Messages: chat.message, message.updated and message.part.updated for    *)
(* one user message                                                         *)

MaxMsgEvents == 3

TextItem(text) == [type |-> "text", text |-> Some(text)]

UserInfo ==
  [id |-> "m1", sessionID |-> "s1", role |-> "user", parts |-> NULL,
   system |-> NULL, providerID |-> NULL, modelID |-> NULL, model |-> NULL,
   summary |-> NULL, tokens |-> NULL]

ChatInputs == {Some(<<TextItem("ab")>>), Some(<<TextItem("abcd")>>)}

MessageTextPart ==
  [id |-> "p1", sessionID |-> "s1", messageID |-> "m1", type |-> "text",
   tool |-> NULL, text |-> Some("abc"), callID |-> NULL, state |-> NULL,
   cost |-> NULL]

NextMsg ==
  \/ \E connected \in BOOLEAN : DatabasePlugin(connected)
  \/ nEvents < MaxMsgEvents /\ MessageUpdated(UserInfo)
  \/ \E parts \in ChatInputs : nEvents < MaxMsgEvents /\ ChatMessage("s1", parts, NULL)
  \/ nEvents < MaxMsgEvents /\ PartUpdated(MessageTextPart)
  \/ \E t \in DOMAIN tasks : StoreStep(t)
  \/ \E t \in DOMAIN tasks, k \in FaultKinds : StoreFault(t, k)

InitMsg == InitWith("s1" :> PriorSession, EmptyMap)

SpecMsg == InitMsg /\ [][NextMsg]_vars

\* C8: across every sequence of message.updated, message.part.updated and
\* chat.message events the stored text, content and model fields of a message
\* never regress: the stored text never becomes shorter or null once set, and a
\* non-null content or model value is never replaced by null.
C8_MessageFieldsNeverRegress ==
  [][\A m \in DOMAIN messages :
       /\ m \in DOMAIN messages'
       /\ TextLen(messages'[m].text) >= TextLen(messages[m].text)
       /\ messages[m].text # NULL => messages'[m].text # NULL
       /\ messages[m].content # NULL => messages'[m].content # NULL
       /\ messages[m].model_provider # NULL => messages'[m].model_provider # NULL
       /\ messages[m].model_id # NULL => messages'[m].model_id # NULL
    ]_vars

----------------------------------------------------------------------------
(* Sessions: session.created, session.updated, session.error               *)

CreatedInputs ==
  {[id |-> "s1", title |-> Some("T"), parentID |-> Some("s0"),
    projectID |-> Some("proj"), directory |-> Some("/w")],
   [id |-> "s1", title |-> NULL, parentID |-> NULL, projectID |-> NULL,
    directory |-> NULL]}

UpdatedInputs ==
  {[id |-> "s1", title |-> NULL, shareUrl |-> Some("https://sh/1")],
   [id |-> "s1", title |-> Some("U"), shareUrl |-> NULL]}

ErrorSessionIds == {NULL, Some("s1")}

ErrorInput == [name |-> Some("ApiError"), message |-> Some("boom")]

NextSession ==
  \/ \E connected \in BOOLEAN : DatabasePlugin(connected)
  \/ \E info \in CreatedInputs : SessionCreated(info)
  \/ \E info \in UpdatedInputs : SessionUpdated(info)
  \/ \E sid \in ErrorSessionIds : SessionError(sid, ErrorInput)
  \/ \E t \in DOMAIN tasks : StoreStep(t)
  \/ \E t \in DOMAIN tasks, k \in FaultKinds : StoreFault(t, k)

SpecSession == InitTool /\ [][NextSession]_vars

\* C7: for any sequence of session.created and session.updated events for one
\* session id and any order in which their writes are applied, a session field
\* holding a known value (title, parent id, project id, directory, share URL)
\* is never replaced by an absent value.
C7_KnownFieldNeverCleared ==
  [][\A x \in DOMAIN sessions :
       /\ x \in DOMAIN sessions'
       /\ sessions[x].title # NULL => sessions'[x].title # NULL
       /\ sessions[x].parent_id # NULL => sessions'[x].parent_id # NULL
       /\ sessions[x].project_id # NULL => sessions'[x].project_id # NULL
       /\ sessions[x].directory # NULL => sessions'[x].directory # NULL
       /\ sessions[x].share_url # NULL => sessions'[x].share_url # NULL
    ]_vars

\* C7 witness: created with title T and updated with a null title were delivered,
\* every write has run and the title is still T
C7_Witness ==
  /\ [type |-> "session.updated",
      info |-> [id |-> "s1", title |-> NULL, shareUrl |-> Some("https://sh/1")]]
       \in delivered
  /\ \E d \in delivered : d.type = "session.created" /\ d.info.title = Some("T")
  /\ tasks = EmptyMap /\ lost = {}
  /\ "s1" \in DOMAIN sessions
  /\ sessions["s1"].title = Some("T")
  /\ sessions["s1"].share_url = Some("https://sh/1")

\* C9: a session.error event whose session id is absent produces zero store
\* operations and changes no correlation state.
C9_ErrorWithoutSessionDropped ==
  [][(/\ nEvents' = nEvents + 1
      /\ lastEv'.type = "session.error"
      /\ lastEv'.sessionID = NULL)
     => /\ tasks' = tasks
        /\ UNCHANGED <<sessions, messages, message_parts, tool_executions,
                       session_errors, compactions>>
        /\ UNCHANGED <<pendingExecutions, callIdToPartId, callIdTimestamps,
                       pendingUserMessages, tokensCountedBySession>>
    ]_vars

\* C9 witness: a session.error without session id has just been delivered to a
\* registered handler while the gate admits writes and session s1 exists
C9_Witness ==
  /\ lastEv.type = "session.error"
  /\ lastEv.sessionID = NULL
  /\ probe = "ok"
  /\ isDatabaseHealthy
  /\ "s1" \in DOMAIN sessions

\* C10: if the startup probe fails the plugin registers no hook, so no event
\* delivered in that process lifetime causes a store operation or a change to
\* the correlation maps; if the probe succeeds all four hooks are registered.
C10_FailedProbeRegistersNothing ==
  [][/\ probe' = "failed"
          => /\ hooks' = {}
             /\ tasks' = EmptyMap
             /\ nEvents' = 0
             /\ UNCHANGED <<sessions, messages, message_parts, tool_executions,
                            session_errors, compactions>>
             /\ UNCHANGED <<pendingExecutions, callIdToPartId, callIdTimestamps,
                            pendingUserMessages, tokensCountedBySession>>
     /\ probe' = "ok" => hooks' = AllHooks
    ]_vars

\* C10 witness: the probe has failed and the plugin returned no hook
C10_Witness ==
  /\ probe = "failed"
  /\ hooks = {}
  /\ consecutiveFailures = 1

----------------------------------------------------------------------------
(* Handler boundaries: exceptions in a handler body, the awaited read of   *)
(* session.compacted, every store outcome                                   *)

HandlerInputs == {[id |-> "s1", title |-> Some("U"), shareUrl |-> NULL]}

NextHandlers ==
  \/ \E connected \in BOOLEAN : DatabasePlugin(connected)
  \/ \E info \in HandlerInputs : SessionUpdated(info)
  \/ SessionCompacted("s1")
  \/ \E hook \in AllHooks : HandlerThrows(hook, "c1")
  \/ \E t \in DOMAIN tasks : StoreStep(t)
  \/ \E t \in DOMAIN tasks, k \in FaultKinds : StoreFault(t, k)
  \/ \E t \in DOMAIN tasks : StoreTimeout(t)
  \/ \E t \in DOMAIN tasks : ReadReturns(t)
  \/ \E t \in DOMAIN tasks, k \in FaultKinds : ReadFails(t, k)
  \/ \E t \in DOMAIN tasks : ReadTimesOut(t)

SpecHandlers == InitTool /\ [][NextHandlers]_vars

AwaitingHandlers == {t \in DOMAIN tasks : IsRead(t) /\ t.observed}

\* C18: for every event kind the handler returns to the host without waiting
\* for any store operation: between a handler's invocation and its return no
\* store read or write is awaited.
C18_NoHandlerAwaitsStore == AwaitingHandlers = {}

----------------------------------------------------------------------------
(* The health gate under load: a process whose probe has succeeded and     *)
(* whose operations have since failed some number of times in a row         *)

MaxGateEvents == 2

\* the numbers of failures in a row the process starts from: none, the base
\* backoff, the first doubling, and the first one the cap applies to
GateFailures == {0, 1, 2, 7}

InitGate ==
  \E failures \in GateFailures :
    InitFrom("ok", AllHooks, failures, "s1" :> PriorSession, EmptyMap)

GateTicks ==
  {BASE_BACKOFF_MS - 1, BASE_BACKOFF_MS, 2 * BASE_BACKOFF_MS - 1,
   2 * BASE_BACKOFF_MS, MAX_BACKOFF_MS - 1, MAX_BACKOFF_MS}

GateFaults ==
  {"connect ECONNREFUSED 127.0.0.1:5432", "connection terminated",
   "syntax error at or near", "CONNECT_TIMEOUT"}

NextGate ==
  \/ \E info \in HandlerInputs : nEvents < MaxGateEvents /\ SessionUpdated(info)
  \/ nEvents < MaxGateEvents /\ SessionCompacted("s1")
  \/ \E d \in GateTicks : Tick(d)
  \/ \E t \in DOMAIN tasks : StoreStep(t)
  \/ \E t \in DOMAIN tasks, m \in GateFaults : StoreFault(t, m)
  \/ \E t \in DOMAIN tasks : StoreTimeout(t)
  \/ \E t \in DOMAIN tasks : ReadReturns(t)
  \/ \E t \in DOMAIN tasks, m \in GateFaults : ReadFails(t, m)
  \/ \E t \in DOMAIN tasks : ReadTimesOut(t)

SpecGate == InitGate /\ [][NextGate]_vars

\* C12: isDatabaseHealthy() returns true exactly when the failure counter is 0
\* or the time elapsed since the last recorded failure is at least
\* min(1000 ms * 2^(failures-1), 60000 ms); in every other state it is false.
C12_HealthyExactlyWhen ==
  isDatabaseHealthy <=>
    \/ consecutiveFailures = 0
    \/ now - lastFailureTime >= Min(1000 * Pow2(consecutiveFailures - 1), 60000)

\* C12 witness: seven failures in a row and exactly 60000 ms elapsed, where the
\* cap and not 1000 * 2^6 decides: the gate reports healthy
C12_Witness ==
  /\ consecutiveFailures = 7
  /\ now - lastFailureTime = 60000
  /\ isDatabaseHealthy

\* C13: whenever the gate reports unhealthy at the moment an operation is
\* submitted, the operation's store function is never invoked: a read returns
\* no data without raising, a write is dropped, and neither changes the failure
\* counter or the last-failure time.
C13_UnhealthyGateAdmitsNothing ==
  [][(nEvents' = nEvents + 1 /\ ~ isDatabaseHealthy)
       => /\ tasks' = tasks
          /\ UNCHANGED <<consecutiveFailures, lastFailureTime>>
          /\ UNCHANGED storeVars
          /\ raised' = raised
    ]_vars

\* C13 witness: session.compacted was delivered to an unhealthy gate: its read
\* was skipped, its session update was dropped, nothing is in flight
C13_Witness ==
  /\ lastEv.type = "session.compacted"
  /\ ~ isDatabaseHealthy
  /\ nEvents = 1
  /\ tasks = EmptyMap
  /\ lost = {[kind |-> "compacted.update", key |-> "s1"]}
  /\ compactions = <<>>

\* C14: whenever an admitted operation completes successfully before its
\* timeout, the failure counter is zero immediately afterwards, whatever its
\* value before, so the gate reports healthy.
C14_SuccessResetsCounter ==
  [][\A t \in DOMAIN tasks :
       (/\ t.observed
        /\ Len(t.steps) = 1
        /\ ~ ViolatesForeignKey(Head(t.steps))
        /\ StoreStep(t) \/ ReadReturns(t))
       => /\ consecutiveFailures' = 0
          /\ isDatabaseHealthy'
    ]_vars

\* C14 witness: an operation has timed out (the counter went up) and an
\* operation admitted before that has since succeeded: the counter is zero
C14_Witness ==
  /\ \E t \in DOMAIN tasks : ~ t.observed
  /\ "s1" \in DOMAIN sessions
  /\ sessions["s1"].title = Some("U")
  /\ consecutiveFailures = 0
  /\ isDatabaseHealthy

\* the error messages that carry a connectivity or timeout signature
MatchesSignature(message) ==
  message \in {"connect ECONNREFUSED 127.0.0.1:5432", "connection terminated",
               "Query timeout"}

\* C15: a failed operation increments the failure counter by one and updates
\* the last-failure time only if its error message matches a connectivity or
\* timeout signature; a failure of any other kind leaves both unchanged.
C15_OnlyConnectivityFailuresCount ==
  [][\A t \in DOMAIN tasks :
       /\ \A m \in GateFaults :
            (t.observed /\ (StoreFault(t, m) \/ ReadFails(t, m)))
            => IF MatchesSignature(m)
                 THEN /\ consecutiveFailures' = consecutiveFailures + 1
                      /\ lastFailureTime' = now
                 ELSE UNCHANGED <<consecutiveFailures, lastFailureTime>>
       /\ (t.observed /\ ViolatesForeignKey(Head(t.steps)) /\ StoreStep(t))
            => UNCHANGED <<consecutiveFailures, lastFailureTime>>
    ]_vars

\* C15 witness: the only operation submitted has failed and nothing succeeded,
\* the counter is still zero: the failure carried no connectivity signature
C15_Witness ==
  /\ nEvents = 1
  /\ nFaults = 1
  /\ tasks = EmptyMap
  /\ lost = {[kind |-> "session.updated", key |-> "s1"]}
  /\ sessions["s1"].title = NULL
  /\ consecutiveFailures = 0
  /\ lastFailureTime = 0

----------------------------------------------------------------------------
(* Call-id lifecycle and referential order, over the tool specification    *)

\* call id c has reached RESOLVED: a tool.execute.after for it was handled
\* (its pending entry consumed, or a row synthesized), or a
\* tool.execute.before for it was handled and the sweep has dropped the entry
Resolved(c) ==
  \/ \E d \in delivered : d.type = "tool.execute.after" /\ d.callID = c
  \/ /\ \E d \in delivered : d.type = "tool.execute.before" /\ d.callID = c
     /\ c \notin DOMAIN pendingExecutions

\* C16: for every call id and every sequence of tool.execute.before,
\* tool.execute.after and sweep steps, once the call id has reached RESOLVED it
\* never has a pending execution entry again.
C16_ResolvedNeverPendingAgain ==
  [][\A c \in ToolCalls :
       Resolved(c) => c \notin DOMAIN pendingExecutions'
    ]_vars

\* the statements that insert a row carrying a session_id foreign key
DependentInserts ==
  {"UpsertMessage", "EnsureMessage", "InsertToolExecution",
   "InsertOrphanToolExecution", "InsertSessionError", "InsertCompaction"}

\* C17: in every reachable store state each message, message-part,
\* tool-execution, session-error and command row references a session row that
\* exists, because every handler that inserts such a row has a session upsert
\* for that session id issued and applied before the dependent insert: when the
\* store runs a dependent insert the session row is there.
C17_SessionBeforeDependents ==
  [][/\ \A t \in DOMAIN tasks :
          (Head(t.steps).op \in DependentInserts /\ StoreStep(t))
            => Head(t.steps).session_id \in DOMAIN sessions
     /\ \A r \in tool_executions' : r.session_id \in DOMAIN sessions'
     /\ \A m \in DOMAIN messages' : messages'[m].session_id \in DOMAIN sessions'
    ]_vars

----------------------------------------------------------------------------
(* Order independence, over the status specification                        *)

\* the content of part p after the writes of payload e1 and then of payload e2
\* have been applied one event after the other
InOrderContent(e1, e2) ==
  IF IncomingPriority(e2) >= StoredPriority(Some(e1)) THEN Some(e2) ELSE Some(e1)

\* C19: for events whose write-behind operations are in flight together, the
\* final content of the session, message and message-part rows after all
\* operations have completed is the same for every order in which the store
\* applies operations of different events; in particular, for two payloads of
\* one part that both report a status, it is the content the order of delivery
\* produces.
C19_OrderIndependentContent ==
  \A e1, e2 \in StatusInputs :
    (/\ e1 # e2
     /\ e1.state # NULL /\ e2.state # NULL
     /\ PartsDelivered("p1") = {e1, e2}
     /\ nEvents = 2
     /\ lastEv = [type |-> "message.part.updated", part |-> e2]
     /\ tasks = EmptyMap
     /\ lost = {})
    => /\ "p1" \in DOMAIN message_parts
       /\ message_parts["p1"].content = InOrderContent(e1, e2)

----------------------------------------------------------------------------
(* Write chains and failure reporting                                       *)

\* C21: within the handling of one message.part.updated event the writes
\* "ensure message exists", "insert part" and "conditionally update part" are
\* one ordered chain inside a single write-behind task: the store starts the
\* part insert only after the event's ensure-message write has completed, so
\* no ensure-message write for that message is still in flight at that step.
C21_PartChainInOneTask ==
  [][\A t \in DOMAIN tasks :
       (/\ t.kind = "part.write"
        /\ Head(t.steps).op = "InsertPartIfAbsent"
        /\ StoreStep(t))
       => \A u \in DOMAIN tasks :
            ~ (u.kind = "part.message" /\ u.key = Head(t.steps).message_id)
    ]_vars

\* a session.error task fails at its error-record insert in this step
ErrorInsertFails(t) ==
  /\ t.kind = "session.error"
  /\ Head(t.steps).op = "InsertSessionError"
  /\ \/ \E k \in FaultKinds : StoreFault(t, k)
     \/ ViolatesForeignKey(Head(t.steps)) /\ StoreStep(t)

\* C22: a data or logic failure of one write of an event does not keep the
\* other writes of that event from being attempted: when the error-record
\* insert of a session.error event fails, the update of the session status to
\* 'error' is still to be run by the store or has been applied.
C22_SiblingWritesIndependent ==
  [][\A t \in DOMAIN tasks :
       ErrorInsertFails(t)
       => \/ \E u \in DOMAIN tasks' : \E i \in DOMAIN u.steps :
               /\ u.steps[i].op = "SetSessionStatus"
               /\ u.steps[i].id = t.key
               /\ u.steps[i].status = "error"
          \/ /\ t.key \in DOMAIN sessions'
             /\ sessions'[t.key].status = "error"
    ]_vars

\* the write-behind operation of task t fails in this step
OperationFails(t) ==
  \/ \E k \in FaultKinds : StoreFault(t, k)
  \/ ViolatesForeignKey(Head(t.steps)) /\ StoreStep(t)

\* C23: every write-behind operation that fails, for every event kind, is
\* reported to the error sink (one more call of logError) and to nothing else.
C23_EveryFailureReported ==
  [][\A t \in DOMAIN tasks :
       (~ IsRead(t) /\ t.observed /\ OperationFails(t))
       => /\ errorLog' = errorLog + 1
          /\ raised' = raised
    ]_vars

\* the number of statements the operations in flight have still to run
RECURSIVE Remaining(_)
Remaining(inflight) ==
  IF DOMAIN inflight = {} THEN 0
  ELSE LET t == CHOOSE x \in DOMAIN inflight : TRUE
       IN inflight[t] * Len(t.steps) + Remaining(MapDelete(inflight, t))

\* C24: a store operation that fails with a connectivity or timeout error, or
\* that is skipped because the gate is unhealthy, is never re-attempted, queued
\* or replayed.  In a step in which an operation fails or times out no
\* operation is submitted: the failed one leaves the operations in flight
\* together with the statements it had not run, the timed-out one goes on
\* unobserved and is not started again.  An event delivered to an unhealthy
\* gate queues nothing, the passing of time (the backoff) queues nothing, and
\* outside the handling of an event the statements still to run only shrink.
C24_NeverReattempted ==
  [][/\ nFaults' # nFaults =>
          /\ \A u \in DOMAIN tasks' :
               u.observed => u \in DOMAIN tasks /\ tasks'[u] <= tasks[u]
          /\ \E t \in DOMAIN tasks :
               /\ t \notin DOMAIN tasks' \/ tasks'[t] < tasks[t]
               /\ \/ Remaining(tasks') = Remaining(tasks) - Len(t.steps)
                  \/ /\ t.observed
                     /\ [t EXCEPT !.observed = FALSE] \in DOMAIN tasks'
                     /\ Remaining(tasks') = Remaining(tasks)
     /\ (nEvents' # nEvents /\ ~ isDatabaseHealthy) => tasks' = tasks
     /\ now' # now => tasks' = tasks
     /\ (nFaults' = nFaults /\ nEvents' = nEvents /\ now' = now) =>
          \/ Remaining(tasks') < Remaining(tasks)
          \/ \E t \in DOMAIN tasks : ReadReturns(t)
    ]_vars

\* C24 witness: the write of the one session.updated delivered failed on the
\* wire, the backoff has since passed and the gate is healthy again, and the
\* write is neither in flight nor applied
C24_Witness ==
  /\ nEvents = 1
  /\ lastEv.type = "session.updated"
  /\ nFaults = 1
  /\ [kind |-> "session.updated", key |-> "s1"] \in lost
  /\ consecutiveFailures > 0
  /\ now > lastFailureTime
  /\ isDatabaseHealthy
  /\ tasks = EmptyMap
  /\ sessions["s1"].title = NULL

----------------------------------------------------------------------------
(* Token accounting of a running process: message.updated for assistant    *)
(* messages with full, smaller and empty token counts                       *)

MaxCountEvents == 3

SmallCounts ==
  Some([input |-> Some(2), output |-> Some(1), reasoning |-> NULL,
        cacheRead |-> Some(1), cacheWrite |-> NULL])

ZeroCounts ==
  Some([input |-> Some(0), output |-> NULL, reasoning |-> Some(1),
        cacheRead |-> Some(3), cacheWrite |-> Some(1)])

CountInputs ==
  {AssistantInfo("m2"),
   [AssistantInfo("m2") EXCEPT !.tokens = ZeroCounts],
   [AssistantInfo("m3") EXCEPT !.tokens = SmallCounts]}

InitCount == InitFrom("ok", AllHooks, 0, "s1" :> PriorSession, EmptyMap)

NextCount ==
  \/ \E info \in CountInputs : nEvents < MaxCountEvents /\ MessageUpdated(info)
  \/ \E t \in DOMAIN tasks : StoreStep(t)
  \/ \E t \in DOMAIN tasks, k \in FaultKinds : StoreFault(t, k)

SpecCount == InitCount /\ [][NextCount]_vars

\* message id m of session x is in the session's token-applied set
Applied(x, m) ==
  x \in DOMAIN tokensCountedBySession /\ m \in DOMAIN tokensCountedBySession[x]

\* the token deltas of a message.updated payload, absent counts read as 0
Delta(info, f) == Nullish(Val(info.tokens)[f], 0)

\* the session update a payload's token deltas call for
DeltaUpdate(info) ==
  [input |-> Delta(info, "input"), output |-> Delta(info, "output"),
   reasoning |-> Delta(info, "reasoning"), cacheRead |-> Delta(info, "cacheRead"),
   cacheWrite |-> Delta(info, "cacheWrite")]

\* the number of session token updates in flight for message m
TokenUpdates(inflight, m) ==
  LET ts == {t \in DOMAIN inflight : t.kind = "message.tokens" /\ t.key = m}
  IN IF ts = {} THEN 0
     ELSE LET t == CHOOSE x \in ts : TRUE IN inflight[t]

\* C25: for an assistant message.updated that carries token deltas and whose
\* id is not yet in the session's token-applied set, one session update is
\* issued for the message's deltas (a message that contributes, handled while
\* the gate admits writes), and when the store runs it the update
\* adds the input, output, reasoning, cache-read and cache-write deltas to the
\* stored counters, sets context_tokens to input + cacheRead of this message
\* (replacing, not adding) and sets peak_context_tokens to
\* max(stored peak, input + cacheRead).
C25_TokenUpdateEffect ==
  [][/\ \A info \in CountInputs :
          (/\ nEvents' # nEvents
           /\ lastEv' = [type |-> "message.updated", info |-> info]
           /\ ~ Applied(info.sessionID, info.id)
           /\ Delta(info, "input") > 0 \/ Delta(info, "output") > 0
           /\ isDatabaseHealthy)
          => /\ TokenUpdates(tasks', info.id) = TokenUpdates(tasks, info.id) + 1
             /\ \E t \in DOMAIN tasks' :
                  /\ t.kind = "message.tokens" /\ t.key = info.id
                  /\ Len(t.steps) = 1
                  /\ t.steps[1].id = info.sessionID
                  /\ [f \in DOMAIN DeltaUpdate(info) |-> t.steps[1][f]]
                       = DeltaUpdate(info)
     /\ \A t \in DOMAIN tasks :
          (t.kind = "message.tokens" /\ StoreStep(t))
          => LET st == t.steps[1]
                 old == sessions[st.id]
                 new == sessions'[st.id]
             IN /\ new.input_tokens = old.input_tokens + st.input
                /\ new.output_tokens = old.output_tokens + st.output
                /\ new.reasoning_tokens = old.reasoning_tokens + st.reasoning
                /\ new.cache_read_tokens = old.cache_read_tokens + st.cacheRead
                /\ new.cache_write_tokens = old.cache_write_tokens + st.cacheWrite
                /\ new.context_tokens = st.input + st.cacheRead
                /\ new.peak_context_tokens
                     = Max(old.peak_context_tokens, st.input + st.cacheRead)
    ]_vars

\* C25 witness: the update of m2 (context 8) and then the update of the
\* smaller m3 (context 3) have both been applied: the counters are the sums,
\* the context size is that of m3 and the peak is that of m2
C25_Witness ==
  /\ tasks = EmptyMap
  /\ lost = {}
  /\ Applied("s1", "m2") /\ Applied("s1", "m3")
  /\ sessions["s1"].input_tokens = 7
  /\ sessions["s1"].output_tokens = 3
  /\ sessions["s1"].reasoning_tokens = 1
  /\ sessions["s1"].cache_read_tokens = 4
  /\ sessions["s1"].cache_write_tokens = 1
  /\ sessions["s1"].context_tokens = 3
  /\ sessions["s1"].peak_context_tokens = 8

\* the payload reports neither input nor output tokens
NonContributing(info) ==
  Delta(info, "input") = 0 /\ Delta(info, "output") = 0

\* the message.updated payloads delivered so far for message id m
UpdatesDelivered(m) ==
  {d.info : d \in {e \in delivered : e.type = "message.updated" /\ e.info.id = m}}

\* C26: an assistant message.updated reporting zero input and zero output
\* tokens adds nothing to the session counters (no session update is issued)
\* and does not put the message id in the token-applied set, so the first
\* later update for the same id with a non-zero input or output count is
\* still counted: the id is marked applied and its update is issued.
C26_ZeroTokensNotApplied ==
  [][\A info \in CountInputs :
       (/\ nEvents' # nEvents
        /\ lastEv' = [type |-> "message.updated", info |-> info])
       => /\ NonContributing(info)
               => /\ tokensCountedBySession' = tokensCountedBySession
                  /\ TokenUpdates(tasks', info.id) = TokenUpdates(tasks, info.id)
          /\ (/\ ~ NonContributing(info)
              /\ UpdatesDelivered(info.id) # {}
              /\ \A e \in UpdatesDelivered(info.id) : NonContributing(e))
               => /\ ~ Applied(info.sessionID, info.id)
                  /\ Applied(info.sessionID, info.id)'
                  /\ isDatabaseHealthy
                       => TokenUpdates(tasks', info.id)
                            = TokenUpdates(tasks, info.id) + 1
    ]_vars

\* C26 witness: an update of m2 without input and output tokens was delivered,
\* then the full update of m2, and the full counts are in the session
C26_Witness ==
  /\ nEvents = 2
  /\ UpdatesDelivered("m2")
       = {AssistantInfo("m2"), [AssistantInfo("m2") EXCEPT !.tokens = ZeroCounts]}
  /\ lastEv = [type |-> "message.updated", info |-> AssistantInfo("m2")]
  /\ tasks = EmptyMap
  /\ lost = {}
  /\ Applied("s1", "m2")
  /\ sessions["s1"].input_tokens = 5
  /\ sessions["s1"].cache_read_tokens = 3

----------------------------------------------------------------------------
(* Session aggregates: token updates, step-finish costs and compaction.    *)
(* The awaited read of session.compacted may fail; a failed write changes   *)
(* no row, and failing writes are examined in the other specifications.     *)

MaxLedgerEvents == 2

StepFinishPart ==
  [id |-> "p1", sessionID |-> "s1", messageID |-> "m1", type |-> "step-finish",
   tool |-> NULL, text |-> NULL, callID |-> NULL, state |-> NULL,
   cost |-> Some(2)]

LedgerInputs ==
  {AssistantInfo("m2"), [AssistantInfo("m3") EXCEPT !.tokens = SmallCounts]}

InitLedger ==
  \E db \in {EmptyMap, "s1" :> PriorSession} :
    InitFrom("ok", AllHooks, 0, db, EmptyMap)

NextLedger ==
  \/ \E info \in LedgerInputs : nEvents < MaxLedgerEvents /\ MessageUpdated(info)
  \/ nEvents < MaxLedgerEvents /\ PartUpdated(StepFinishPart)
  \/ nEvents < MaxLedgerEvents /\ SessionCompacted("s1")
  \/ \E t \in DOMAIN tasks : StoreStep(t)
  \/ \E t \in DOMAIN tasks : ReadReturns(t)
  \/ \E t \in DOMAIN tasks, k \in FaultKinds : ReadFails(t, k)

SpecLedger == InitLedger /\ [][NextLedger]_vars

\* the distinct step-finish parts with a cost delivered so far for session x
CostParts(x) ==
  {d.part : d \in {e \in delivered : /\ e.type = "message.part.updated"
                                      /\ e.part.type = "step-finish"
                                      /\ e.part.cost # NULL
                                      /\ e.part.sessionID = x}}

\* the sum of the costs of a set of parts
RECURSIVE SumCost(_)
SumCost(S) ==
  IF S = {} THEN 0
  ELSE LET p == CHOOSE y \in S : TRUE
       IN Val(p.cost) + SumCost(S \ {p})

\* C27: each step-finish part that carries a cost contributes that cost to the
\* session's estimated cost exactly once, however many times the
\* message.part.updated event for that part id is delivered: the estimated
\* cost is at most the sum of the costs of the distinct parts delivered.
C27_CostCountedOnce ==
  \A x \in DOMAIN sessions :
    sessions[x].estimated_cost <= SumCost(CostParts(x))

\* the number of operations of the given kind in flight for key k
RECURSIVE KindCount(_, _, _)
KindCount(inflight, kind, k) ==
  IF DOMAIN inflight = {} THEN 0
  ELSE LET t == CHOOSE x \in DOMAIN inflight : TRUE
       IN (IF t.kind = kind /\ t.key = k THEN inflight[t] ELSE 0)
          + KindCount(MapDelete(inflight, t), kind, k)

\* the snapshot of a session row: the counters session.compacted reads
Snapshot(row) ==
  [context_tokens_before |-> row.context_tokens,
   cumulative_input_tokens |-> row.input_tokens,
   cumulative_output_tokens |-> row.output_tokens,
   cumulative_cache_read |-> row.cache_read_tokens,
   cumulative_cache_write |-> row.cache_write_tokens,
   cumulative_reasoning |-> row.reasoning_tokens,
   cumulative_cost |-> row.estimated_cost]

\* C28: handling session.compacted when the counter read returns the session
\* row issues exactly one snapshot insert holding the values read, and the
\* insert adds exactly that row; the handler issues one reset, and the reset
\* sets context_tokens to 0, sets peak_context_tokens to
\* max(peak, pre-reset context_tokens), increments compaction_count by exactly
\* 1 and leaves the cumulative input, output, reasoning and cache counters and
\* the cost unchanged; when the read returns no row no snapshot is issued.
C28_CompactionSnapshotAndReset ==
  [][\A t \in DOMAIN tasks :
       /\ (IsRead(t) /\ t.observed /\ ReadReturns(t))
            => /\ KindCount(tasks', "compacted.update", t.key)
                    = KindCount(tasks, "compacted.update", t.key) + 1
               /\ IF t.key \in DOMAIN sessions
                    THEN /\ KindCount(tasks', "compacted.insert", t.key)
                              = KindCount(tasks, "compacted.insert", t.key) + 1
                         /\ \E u \in DOMAIN tasks' :
                              /\ u.kind = "compacted.insert" /\ u.key = t.key
                              /\ Len(u.steps) = 1
                              /\ u.steps[1].session_id = t.key
                              /\ [f \in DOMAIN Snapshot(sessions[t.key])
                                    |-> u.steps[1][f]] = Snapshot(sessions[t.key])
                              /\ u \in DOMAIN tasks => tasks'[u] = tasks[u] + 1
                    ELSE KindCount(tasks', "compacted.insert", t.key)
                           = KindCount(tasks, "compacted.insert", t.key)
       /\ (t.kind = "compacted.insert" /\ StoreStep(t)
           /\ ~ ViolatesForeignKey(t.steps[1]))
            => /\ Len(compactions') = Len(compactions) + 1
               /\ SubSeq(compactions', 1, Len(compactions)) = compactions
               /\ LET row == compactions'[Len(compactions')]
                  IN /\ row.session_id = t.key
                     /\ \A f \in DOMAIN row : row[f] = t.steps[1][f]
       /\ (t.kind = "compacted.update" /\ StoreStep(t)
           /\ t.key \in DOMAIN sessions)
            => LET old == sessions[t.key]
                   new == sessions'[t.key]
               IN /\ new.context_tokens = 0
                  /\ new.peak_context_tokens
                       = Max(old.peak_context_tokens, old.context_tokens)
                  /\ new.compaction_count = old.compaction_count + 1
                  /\ new.input_tokens = old.input_tokens
                  /\ new.output_tokens = old.output_tokens
                  /\ new.reasoning_tokens = old.reasoning_tokens
                  /\ new.cache_read_tokens = old.cache_read_tokens
                  /\ new.cache_write_tokens = old.cache_write_tokens
                  /\ new.estimated_cost = old.estimated_cost
    ]_vars

\* C28 witness: the counters of m2 were in the session when session.compacted
\* read it; the one snapshot holds them and the reset has been applied
C28_Witness ==
  /\ lastEv.type = "session.compacted"
  /\ tasks = EmptyMap
  /\ Len(compactions) = 1
  /\ compactions[1].session_id = "s1"
  /\ compactions[1].context_tokens_before = 8
  /\ compactions[1].cumulative_input_tokens = 5
  /\ compactions[1].cumulative_cache_read = 3
  /\ sessions["s1"].context_tokens = 0
  /\ sessions["s1"].peak_context_tokens = 8
  /\ sessions["s1"].compaction_count = 1
  /\ sessions["s1"].input_tokens = 5
  /\ sessions["s1"].cache_read_tokens = 3

\* C29: for non-negative token and cost deltas a session's cumulative input,
\* output, reasoning, cache-read and cache-write token counters, its
\* estimated cost, its peak context and its compaction count never decrease,
\* under any sequence of events and any order of write application, and no
\* session row disappears.  Only the live context-token counter goes down:
\* compaction resets it to 0, and a token update replaces it with the context
\* size of its own message.
C29_CountersNeverDecrease ==
  [][\A x \in DOMAIN sessions :
       /\ x \in DOMAIN sessions'
       /\ LET old == sessions[x]
              new == sessions'[x]
          IN /\ new.input_tokens >= old.input_tokens
             /\ new.output_tokens >= old.output_tokens
             /\ new.reasoning_tokens >= old.reasoning_tokens
             /\ new.cache_read_tokens >= old.cache_read_tokens
             /\ new.cache_write_tokens >= old.cache_write_tokens
             /\ new.estimated_cost >= old.estimated_cost
             /\ new.peak_context_tokens >= old.peak_context_tokens
             /\ new.compaction_count >= old.compaction_count
             /\ new.context_tokens < old.context_tokens
                  => \/ /\ new.context_tokens = 0
                        /\ new.compaction_count = old.compaction_count + 1
                        /\ \E t \in DOMAIN tasks :
                             /\ t.kind = "compacted.update" /\ t.key = x
                             /\ StoreStep(t)
                     \/ \E t \in DOMAIN tasks :
                          /\ t.kind = "message.tokens" /\ t.steps[1].id = x
                          /\ new.context_tokens
                               = t.steps[1].input + t.steps[1].cacheRead
                          /\ StoreStep(t)
    ]_vars

\* C29 witness: the counts of m3 were added, then compaction reset the context
\* size and kept the totals
C29_Witness ==
  /\ lastEv.type = "session.compacted"
  /\ tasks = EmptyMap
  /\ Len(compactions) = 1
  /\ compactions[1].context_tokens_before = 3
  /\ sessions["s1"].context_tokens = 0
  /\ sessions["s1"].peak_context_tokens = 3
  /\ sessions["s1"].compaction_count = 1
  /\ sessions["s1"].input_tokens = 2
  /\ sessions["s1"].output_tokens = 1
  /\ sessions["s1"].cache_read_tokens = 1

----------------------------------------------------------------------------
(* The pending user message: chat.message buffers, message.updated consumes *)

MaxPendingEvents == 3

FileItem == [type |-> "file", text |-> NULL]

PendingChats ==
  {[parts |-> Some(<<TextItem("a"), FileItem, [type |-> "text", text |-> NULL],
                     TextItem("b")>>),
    system |-> Some("sys")],
   [parts |-> Some(<<FileItem>>), system |-> NULL],
   [parts |-> NULL, system |-> Some("sys")]}

PendingInfos == {UserInfo, [UserInfo EXCEPT !.system = Some("own")]}

InitPending == InitFrom("ok", AllHooks, 0, "s1" :> PriorSession, EmptyMap)

NextPending ==
  \/ \E c \in PendingChats :
       nEvents < MaxPendingEvents /\ ChatMessage("s1", c.parts, c.system)
  \/ \E info \in PendingInfos : nEvents < MaxPendingEvents /\ MessageUpdated(info)
  \/ \E t \in DOMAIN tasks : StoreStep(t)
  \/ \E t \in DOMAIN tasks, k \in FaultKinds : StoreFault(t, k)

SpecPending == InitPending /\ [][NextPending]_vars

\* the texts of the text-type parts of a part list that have a text
RECURSIVE BufferedTexts(_)
BufferedTexts(parts) ==
  IF parts = <<>> THEN <<>>
  ELSE LET last == parts[Len(parts)]
           rest == BufferedTexts(SubSeq(parts, 1, Len(parts) - 1))
       IN IF last.type = "text" /\ last.text # NULL /\ Val(last.text) # ""
            THEN Append(rest, Val(last.text))
            ELSE rest

\* the texts, one per line; NULL when there is none
RECURSIVE OnePerLine(_)
OnePerLine(texts) ==
  IF texts = <<>> THEN NULL
  ELSE IF Len(texts) = 1 THEN Some(texts[1])
  ELSE Some(Val(OnePerLine(SubSeq(texts, 1, Len(texts) - 1)))
            \o "\n" \o texts[Len(texts)])

\* the message upserts in flight for message m
Upserts(inflight, m) ==
  {t \in DOMAIN inflight : t.kind = "message.upsert" /\ t.key = m}

\* C30: when a message.updated with role user carries no parts and the session
\* has a buffered pending entry, the message's content is the buffered part
\* list, its text is the newline-joined concatenation of the buffered
\* text-type parts (null when there is no text part), a missing system prompt
\* is taken from the buffer, and the buffer entry is removed; a
\* message.updated that finds no buffer writes no content and no text.
C30_PendingMessageConsumed ==
  [][\A info \in PendingInfos :
       (/\ nEvents' # nEvents
        /\ lastEv' = [type |-> "message.updated", info |-> info]
        /\ isDatabaseHealthy)
       => /\ info.sessionID \notin DOMAIN pendingUserMessages'
          /\ \E t \in Upserts(tasks', info.id) :
               /\ t \notin DOMAIN tasks \/ tasks'[t] = tasks[t] + 1
               /\ Len(t.steps) = 1
               /\ IF info.sessionID \in DOMAIN pendingUserMessages
                    THEN LET buffer == pendingUserMessages[info.sessionID]
                         IN /\ t.steps[1].content = Some(buffer.parts)
                            /\ t.steps[1].text
                                 = OnePerLine(BufferedTexts(buffer.parts))
                            /\ t.steps[1].system_prompt
                                 = IF info.system # NULL THEN info.system
                                   ELSE buffer.systemPrompt
                    ELSE /\ t.steps[1].content = NULL
                         /\ t.steps[1].text = NULL
                         /\ t.steps[1].system_prompt = info.system
    ]_vars

\* C30 witness: the buffered parts of a chat.message were consumed by the
\* message.updated delivered after it and the upsert has been applied
C30_Witness ==
  /\ nEvents = 2
  /\ lastEv = [type |-> "message.updated", info |-> UserInfo]
  /\ "s1" \notin DOMAIN pendingUserMessages
  /\ tasks = EmptyMap
  /\ lost = {}
  /\ "m1" \in DOMAIN messages
  /\ messages["m1"].text = Some("a\nb")
  /\ messages["m1"].system_prompt = Some("sys")
  /\ messages["m1"].content # NULL
  /\ Len(Val(messages["m1"].content)) = 4

----------------------------------------------------------------------------
(* One user turn delivered as two notifications, in either order            *)

\* the two notifications of one user turn, and nothing else, were delivered
TurnDelivered(c, info) ==
  /\ nEvents = 2
  /\ delivered = {[type |-> "chat.message", sessionID |-> info.sessionID,
                   parts |-> c.parts, system |-> c.system],
                  [type |-> "message.updated", info |-> info]}

\* C31: for one user turn, whichever of chat.message (parts and system prompt)
\* and the user message.updated (message id, no parts array) arrives first,
\* once the turn's writes have completed the stored row of the user message
\* has the content and the text of the turn's buffered parts, and the buffered
\* parts are not left waiting for another message.
C31_EitherOrderSameRow ==
  \A c \in PendingChats, info \in PendingInfos :
    (/\ TurnDelivered(c, info)
     /\ c.parts # NULL
     /\ tasks = EmptyMap
     /\ lost = {})
    => /\ info.id \in DOMAIN messages
       /\ messages[info.id].content = c.parts
       /\ messages[info.id].text = OnePerLine(BufferedTexts(Val(c.parts)))
       /\ info.sessionID \notin DOMAIN pendingUserMessages

----------------------------------------------------------------------------
(* The call-id -> part-id association: message.part.updated registers it,  *)
(* tool.execute.after reads it                                              *)

MaxLinkEvents == 2

CallPart(id, status) ==
  [id |-> id, sessionID |-> "s1", messageID |-> "m1", type |-> "tool",
   tool |-> Some("bash"), text |-> NULL, callID |-> Some("c1"),
   state |-> PartState(Some(status)), cost |-> NULL]

\* a completed tool part reports its output
CallPartDone ==
  [CallPart("p1", "completed") EXCEPT
     !.state = Some([status |-> Some("completed"), output |-> Some("done")])]

LinkParts == {CallPart("p1", "running"), CallPartDone, CallPart("p2", "running")}

LinkOutputs == {Some(""), Some("out")}

\* the gate is open, or closed by one failure at time 0
LinkFailures == {0, 1}

\* the pending entry and the row a tool.execute.before for call c1 has left
StartedEntry ==
  [correlationId |-> "k1", sessionId |-> "s1", toolName |-> "bash",
   args |-> Some("ls"), startedAt |-> 0, partId |-> NULL]

StartedRow ==
  [correlation_id |-> "k1", session_id |-> "s1", tool_name |-> "bash",
   args |-> Some("ls"), result |-> NULL, started_at |-> Some(0),
   completed_at |-> NULL, duration_ms |-> NULL, success |-> NULL]

\* The plugin is running, session s1 and message m1 are stored; call c1 has
\* not started, or its tool.execute.before has been handled and its row
\* written; the gate is open or closed.
InitLink ==
  /\ probe = "ok"
  /\ hooks = AllHooks
  /\ now = 0
  /\ consecutiveFailures \in LinkFailures
  /\ lastFailureTime = 0
  /\ \E started \in BOOLEAN :
       /\ pendingExecutions = (IF started THEN "c1" :> StartedEntry ELSE EmptyMap)
       /\ tool_executions = (IF started THEN {StartedRow} ELSE {})
       /\ corrSeq = (IF started THEN 1 ELSE 0)
  /\ callIdToPartId = EmptyMap
  /\ callIdTimestamps = EmptyMap
  /\ pendingUserMessages = EmptyMap
  /\ tokensCountedBySession = EmptyMap
  /\ sessions = "s1" :> PriorSession
  /\ messages = "m1" :> PriorMessage
  /\ message_parts = EmptyMap
  /\ session_errors = <<>>
  /\ compactions = <<>>
  /\ raised = {}
  /\ tasks = EmptyMap
  /\ errorLog = 0
  /\ nEvents = 0
  /\ nFaults = 0
  /\ nTicks = 0
  /\ lastEv = [type |-> "none"]
  /\ lost = {}
  /\ execLog = {}
  /\ delivered = {}

NextLink ==
  \/ \E part \in LinkParts : nEvents < MaxLinkEvents /\ PartUpdated(part)
  \/ nEvents < MaxLinkEvents /\ ToolExecuteBefore("c1", "s1", "bash", Some("ls"))
  \/ \E o \in LinkOutputs :
       nEvents < MaxLinkEvents /\ ToolExecuteAfter("c1", "s1", "bash", o, NULL)
  \/ nEvents < MaxLinkEvents /\ HandlerThrows("tool.execute.after", "c1")
  \/ Tick(BASE_BACKOFF_MS)
  \/ \E t \in DOMAIN tasks : StoreStep(t)

SpecLink == InitLink /\ [][NextLink]_vars

\* the annotation of part p with the given output is the last statement of a
\* write task that the step has put in flight
AnnotationIssued(p, output) ==
  \E t \in DOMAIN tasks' :
    /\ t \notin DOMAIN tasks \/ tasks'[t] = tasks[t] + 1
    /\ t.kind \in {"tool.update", "tool.orphan"}
    /\ t.steps[Len(t.steps)] = [op |-> "AnnotatePartOutput", id |-> p,
                                output |-> output]

\* C32: every message.part.updated for a tool part that carries a call id sets
\* the call-id -> part-id association to that part id, whether the gate admits
\* the part row write or drops it and whatever status the stored part has; a
\* later tool.execute.after for that call id with a non-empty output, handled
\* while the association is registered and the gate admits its write, issues the
\* output annotation for that part, with and without a pending execution entry.
C32_AssociationThenAnnotation ==
  [][/\ \A part \in LinkParts :
          (nEvents' # nEvents
           /\ lastEv' = [type |-> "message.part.updated", part |-> part])
          => /\ Val(part.callID) \in DOMAIN callIdToPartId'
             /\ callIdToPartId'[Val(part.callID)] = part.id
     /\ \A o \in LinkOutputs :
          (/\ nEvents' # nEvents
           /\ lastEv' = [type |-> "tool.execute.after", callID |-> "c1",
                         sessionID |-> "s1", tool |-> "bash", output |-> o,
                         metadata |-> NULL]
           /\ "c1" \in DOMAIN callIdToPartId
           /\ o # NULL /\ Val(o) # ""
           /\ isDatabaseHealthy)
          => AnnotationIssued(callIdToPartId["c1"], o)
    ]_vars

\* C32 witness: while the gate was closed a part update set the association to
\* p2 and its row write was dropped; the pending entry of the call is still
\* there when the after arrives, and the after's task ends with the annotation
\* of p2
C32_Witness ==
  /\ nEvents = 2
  /\ CallPart("p2", "running") \in {ev.part : ev \in {d \in delivered :
                                       d.type = "message.part.updated"}}
  /\ [kind |-> "part.write", key |-> "p2"] \in lost
  /\ lastEv.type = "tool.execute.after"
  /\ \E t \in DOMAIN tasks :
       /\ t.kind = "tool.update"
       /\ t.steps[Len(t.steps)] = [op |-> "AnnotatePartOutput", id |-> "p2",
                                   output |-> Some("out")]

\* C33: when the handling of a tool.execute.after for a call id ends, on the
\* normal path and on the error path alike, the pending-execution map, the
\* call-id -> part-id map and its timestamp map hold no entry for that call id.
C33_AfterClearsCallEntries ==
  [][(/\ nEvents' # nEvents
      /\ \/ lastEv'.type = "tool.execute.after"
         \/ lastEv'.type = "throw" /\ lastEv'.hook = "tool.execute.after")
     => /\ lastEv'.callID \notin DOMAIN pendingExecutions'
        /\ lastEv'.callID \notin DOMAIN callIdToPartId'
        /\ lastEv'.callID \notin DOMAIN callIdTimestamps'
    ]_vars

\* C33 witness: call c1 had a pending entry and, from a part update, an
\* association with its timestamp; its tool.execute.after has been handled and
\* the three maps are empty
C33_Witness ==
  /\ nEvents = 2
  /\ \E d \in delivered : d.type = "message.part.updated" /\ d.part.callID = Some("c1")
  /\ \E a \in execLog : a.kind = "after" /\ a.callID = "c1"
  /\ lastEv.type = "tool.execute.after"
  /\ pendingExecutions = EmptyMap
  /\ callIdToPartId = EmptyMap
  /\ callIdTimestamps = EmptyMap

----------------------------------------------------------------------------
(* The periodic sweep of the correlation maps                                *)

MaxSweepEvents == 2

SweepTick == STALE_ENTRY_TIMEOUT_MS + 1

\* The database holds session s1 with message m1, or it is empty: every write
\* that refers to a session then fails on its foreign key until a handler has
\* created the session.
InitSweep ==
  \/ InitFrom("ok", AllHooks, 0, "s1" :> PriorSession, "m1" :> PriorMessage)
  \/ InitFrom("ok", AllHooks, 0, EmptyMap, EmptyMap)

\* The host is quiet once the clock of the model has reached its last tick.
NextSweep ==
  \/ /\ nEvents < MaxSweepEvents /\ nTicks < MaxTicks
     /\ ToolExecuteBefore("c1", "s1", "bash", Some("ls"))
  \/ /\ nEvents < MaxSweepEvents /\ nTicks < MaxTicks
     /\ PartUpdated(CallPart("p1", "running"))
  \/ /\ nEvents < MaxSweepEvents /\ nTicks < MaxTicks
     /\ ChatMessage("s1", Some(<<TextItem("ab")>>), NULL)
  \/ /\ nEvents < MaxSweepEvents /\ nTicks < MaxTicks
     /\ MessageUpdated(AssistantInfo("m2"))
  \/ Sweep
  \/ Tick(SweepTick)
  \/ \E t \in DOMAIN tasks : StoreStep(t)

SpecSweep == InitSweep /\ [][NextSweep]_vars

\* setInterval(cleanupStaleMaps, CLEANUP_INTERVAL_MS) keeps firing and the
\* clock keeps advancing
FairSweep == SpecSweep /\ WF_vars(Sweep) /\ WF_vars(Tick(SweepTick))

\* an entry stamped at ts is not older than the staleness threshold
Fresh(ts) == now - ts <= STALE_ENTRY_TIMEOUT_MS

\* map m after the step holds exactly the entries of m whose stamp is fresh,
\* unchanged
KeepsFresh(m, mAfter, stamp(_)) ==
  /\ DOMAIN mAfter = {k \in DOMAIN m : Fresh(stamp(k))}
  /\ \A k \in DOMAIN mAfter : mAfter[k] = m[k]

\* the token-applied sets after the step: the fresh ids of each session, and
\* no session without ids
KeepsFreshIds ==
  /\ DOMAIN tokensCountedBySession' =
       {x \in DOMAIN tokensCountedBySession :
          \E m \in DOMAIN tokensCountedBySession[x] :
            Fresh(tokensCountedBySession[x][m])}
  /\ \A x \in DOMAIN tokensCountedBySession' :
       LET before == tokensCountedBySession[x]
           after == tokensCountedBySession'[x]
       IN /\ DOMAIN after = {m \in DOMAIN before : Fresh(before[m])}
          /\ \A m \in DOMAIN after : after[m] = before[m]

\* C34: under a fair periodic sweep every entry of each of the four correlation
\* maps is eventually removed unless it is registered again: a sweep drops
\* exactly the entries older than the staleness threshold, whether or not their
\* store writes succeeded, and leaves every other entry unchanged; a pending
\* execution whose after never arrives does not stay forever.  With a host
\* that goes quiet, so that nothing is registered again for ever, the maps
\* end up empty and stay empty.
C34_StaleEntriesSwept ==
  /\ [][(nEvents' = nEvents /\ mapVars' # mapVars) =>
          /\ LET stamp(k) == pendingExecutions[k].startedAt
             IN KeepsFresh(pendingExecutions, pendingExecutions', stamp)
          /\ LET stamp(k) == pendingUserMessages[k].timestamp
             IN KeepsFresh(pendingUserMessages, pendingUserMessages', stamp)
          /\ LET stamp(k) == callIdTimestamps[k]
             IN /\ KeepsFresh(callIdToPartId, callIdToPartId', stamp)
                /\ KeepsFresh(callIdTimestamps, callIdTimestamps', stamp)
          /\ KeepsFreshIds
       ]_vars
  /\ <>[](/\ pendingExecutions = EmptyMap
          /\ callIdToPartId = EmptyMap
          /\ callIdTimestamps = EmptyMap
          /\ pendingUserMessages = EmptyMap
          /\ tokensCountedBySession = EmptyMap)

\* C34 witness: the insert of a tool.execute.before failed, no after came, and
\* once its pending entry was older than the threshold a sweep has dropped it,
\* together with the buffered user message registered at the same time
C34_Witness ==
  /\ nEvents = 2
  /\ \E b \in execLog : b.kind = "before" /\ b.callID = "c1"
  /\ \E d \in delivered : d.type = "chat.message"
  /\ [kind |-> "tool.insert", key |-> "k1"] \in lost
  /\ now > STALE_ENTRY_TIMEOUT_MS
  /\ pendingExecutions = EmptyMap
  /\ pendingUserMessages = EmptyMap

----------------------------------------------------------------------------
(* Peak and current context                                                  *)

\* C35: in every reachable store state, for every interleaving of token
\* updates and compaction resets, a session's peak_context_tokens is greater
\* than or equal to its context_tokens.
C35_PeakAtLeastContext ==
  \A x \in DOMAIN sessions :
    sessions[x].peak_context_tokens >= sessions[x].context_tokens

\* C35 witness: two messages were counted, the one with the larger context
\* first: the context is that of the later update, the peak that of the earlier
C35_Witness ==
  /\ nEvents = 2
  /\ tasks = EmptyMap
  /\ "s1" \in DOMAIN sessions
  /\ sessions["s1"].context_tokens = 3
  /\ sessions["s1"].peak_context_tokens = 8
  /\ sessions["s1"].input_tokens = 7

----------------------------------------------------------------------------
(* The token-applied mark and the outcome of the token write                *)

MaxMarkEvents == 2

\* the assistant message that is delivered, and delivered again
MarkInfo == AssistantInfo("m2")

InitMark ==
  \E f \in LinkFailures :
    InitFrom("ok", AllHooks, f, "s1" :> PriorSession, EmptyMap)

NextMark ==
  \/ nEvents < MaxMarkEvents /\ MessageUpdated(MarkInfo)
  \/ Tick(BASE_BACKOFF_MS)
  \/ \E t \in DOMAIN tasks : StoreStep(t)
  \/ \E t \in DOMAIN tasks, k \in FaultKinds : StoreFault(t, k)
  \/ \E t \in DOMAIN tasks : StoreTimeout(t)

SpecMark == InitMark /\ [][NextMark]_vars

\* message id m of session x is in the token-applied set after the step
AppliedAfter(x, m) ==
  x \in DOMAIN tokensCountedBySession' /\ m \in DOMAIN tokensCountedBySession'[x]

\* C36: a message id is added to the session's token-applied set when the token
\* write is dispatched, independently of that write's outcome: when the write is
\* skipped by an unhealthy gate, times out or fails, the id stays marked, and a
\* later redelivery of the same assistant message issues no token write and
\* adds nothing to the session totals.
C36_MarkedWhateverTheOutcome ==
  [][/\ (nEvents' # nEvents /\ ~ Applied("s1", "m2")) =>
          /\ AppliedAfter("s1", "m2")
          /\ KindCount(tasks', "message.tokens", "m2")
               = IF isDatabaseHealthy THEN 1 ELSE 0
     /\ (nEvents' # nEvents /\ Applied("s1", "m2")) =>
          /\ AppliedAfter("s1", "m2")
          /\ KindCount(tasks', "message.tokens", "m2")
               = KindCount(tasks, "message.tokens", "m2")
     /\ nEvents' = nEvents => tokensCountedBySession' = tokensCountedBySession
     /\ \A f \in {"input", "output", "reasoning", "cacheRead", "cacheWrite"} :
          sessions'["s1"][CASE f = "input" -> "input_tokens"
                            [] f = "output" -> "output_tokens"
                            [] f = "reasoning" -> "reasoning_tokens"
                            [] f = "cacheRead" -> "cache_read_tokens"
                            [] f = "cacheWrite" -> "cache_write_tokens"]
            <= Delta(MarkInfo, f)
    ]_vars

\* C36 witness: the first delivery found the gate closed, so its token write
\* was dropped; the message was delivered again after the gate had reopened,
\* the writes of that delivery have succeeded, and the session has no tokens
C36_Witness ==
  /\ nEvents = 2
  /\ nFaults = 0
  /\ [kind |-> "message.tokens", key |-> "m2"] \in lost
  /\ consecutiveFailures = 0
  /\ tasks = EmptyMap
  /\ Applied("s1", "m2")
  /\ "m2" \in DOMAIN messages
  /\ sessions["s1"].input_tokens = 0
  /\ sessions["s1"].context_tokens = 0

----------------------------------------------------------------------------
(* session.compacted and session.deleted forget the token-applied set       *)

MaxForgetEvents == 2

\* the rows the first delivery of MarkInfo has written
CountedSession ==
  [PriorSession EXCEPT !.model_provider = Some("anthropic"),
                       !.model_id = Some("opus"),
                       !.input_tokens = 5, !.output_tokens = 2,
                       !.reasoning_tokens = 1, !.cache_read_tokens = 3,
                       !.cache_write_tokens = 1, !.context_tokens = 8,
                       !.peak_context_tokens = 8]

CountedMessage ==
  [PriorMessage EXCEPT !.model_provider = Some("anthropic"),
                       !.model_id = Some("opus")]

\* MarkInfo has been delivered at time 0 and is in the token-applied set of
\* s1: either the gate was open and its writes have been applied, or the gate
\* was closed by one failure, its writes were dropped and the database is
\* still empty.
InitForget ==
  /\ probe = "ok"
  /\ hooks = AllHooks
  /\ now = 0
  /\ lastFailureTime = 0
  /\ \E written \in BOOLEAN :
       /\ consecutiveFailures = (IF written THEN 0 ELSE 1)
       /\ sessions = (IF written THEN "s1" :> CountedSession ELSE EmptyMap)
       /\ messages = (IF written THEN "m2" :> CountedMessage ELSE EmptyMap)
  /\ tokensCountedBySession = "s1" :> ("m2" :> 0)
  /\ pendingExecutions = EmptyMap
  /\ callIdToPartId = EmptyMap
  /\ callIdTimestamps = EmptyMap
  /\ pendingUserMessages = EmptyMap
  /\ message_parts = EmptyMap
  /\ tool_executions = {}
  /\ session_errors = <<>>
  /\ compactions = <<>>
  /\ raised = {}
  /\ tasks = EmptyMap
  /\ errorLog = 0
  /\ corrSeq = 0
  /\ nEvents = 0
  /\ nFaults = 0
  /\ nTicks = 0
  /\ lastEv = [type |-> "none"]
  /\ lost = {}
  /\ execLog = {}
  /\ delivered = {}

NextForget ==
  \/ nEvents < MaxForgetEvents /\ SessionCompacted("s1")
  \/ \E info \in HandlerInputs : nEvents < MaxForgetEvents /\ SessionDeleted(info)
  \/ nEvents < MaxForgetEvents /\ MessageUpdated(MarkInfo)
  \/ Tick(BASE_BACKOFF_MS)
  \/ \E t \in DOMAIN tasks : StoreStep(t)
  \/ \E t \in DOMAIN tasks : ReadReturns(t)
  \/ \E t \in DOMAIN tasks, k \in FaultKinds : ReadFails(t, k)
  \/ \E t \in DOMAIN tasks : ReadTimesOut(t)

SpecForget == InitForget /\ [][NextForget]_vars

\* the handler of a session.compacted that was suspended on its read resumes
\* in this step: the read has answered, failed or timed out
HandlerResumes ==
  \E t \in DOMAIN tasks :
    /\ IsRead(t) /\ t.observed
    /\ t \notin DOMAIN tasks' \/ tasks'[t] < tasks[t]

\* C37: when the handling of a session.compacted or a session.deleted ends, the
\* session has no token-applied set: for session.deleted at once, for
\* session.compacted when the gate skipped the counter read and when the read
\* has answered (with or without a row), failed or timed out; an assistant
\* message id counted before the event is therefore counted again when it is
\* redelivered afterwards.
C37_CompactionForgetsApplied ==
  [][/\ (nEvents' # nEvents /\ lastEv'.type = "session.deleted")
          => lastEv'.info.id \notin DOMAIN tokensCountedBySession'
     /\ (nEvents' # nEvents /\ lastEv'.type = "session.compacted"
           /\ ~ isDatabaseHealthy)
          => lastEv'.sessionID \notin DOMAIN tokensCountedBySession'
     /\ HandlerResumes => "s1" \notin DOMAIN tokensCountedBySession'
     /\ (/\ nEvents' # nEvents
         /\ lastEv' = [type |-> "message.updated", info |-> MarkInfo]
         /\ "s1" \notin DOMAIN tokensCountedBySession
         /\ isDatabaseHealthy)
          => KindCount(tasks', "message.tokens", "m2")
               = KindCount(tasks, "message.tokens", "m2") + 1
    ]_vars

\* C37 witness: m2 was counted, the session was compacted, m2 was delivered
\* again and its tokens were added a second time
C37_Witness ==
  /\ nEvents = 2
  /\ tasks = EmptyMap
  /\ lastEv = [type |-> "message.updated", info |-> MarkInfo]
  /\ Len(compactions) = 1
  /\ sessions["s1"].compaction_count = 1
  /\ sessions["s1"].input_tokens = 10
  /\ sessions["s1"].output_tokens = 4
  /\ Applied("s1", "m2")

----------------------------------------------------------------------------
(* The output annotation of tool.execute.after                               *)

\* the statement the store runs in this step is the next one of task t
Runs(t) ==
  /\ t \in DOMAIN tasks
  /\ nEvents' = nEvents
  /\ t \notin DOMAIN tasks' \/ tasks'[t] < tasks[t]

\* the output stored in a part's content, NULL when there is none
StoredOutput(content) ==
  IF content = NULL \/ Val(content).state = NULL THEN NULL
  ELSE Val(Val(content).state).output

\* content b is content a with nothing but state.output changed
SameButOutput(a, b) ==
  /\ a # NULL /\ b # NULL
  /\ Val(a).state # NULL /\ Val(b).state # NULL
  /\ [Val(b) EXCEPT !.state = Val(a).state] = Val(a)
  /\ [Val(Val(b).state) EXCEPT !.output = StoredOutput(a)] = Val(Val(a).state)

\* C38: the output annotation issued by tool.execute.after writes only the
\* nested state.output of the linked part, only when the reported output is
\* non-empty and the stored part has no output yet; it never replaces an
\* output already stored and never changes the part's status, text or tool
\* name, nor any other row.
C38_AnnotationWritesOnlyOutput ==
  [][/\ \A t \in DOMAIN tasks' : \A i \in DOMAIN t.steps :
          t.steps[i].op = "AnnotatePartOutput" =>
            t.steps[i].output # NULL /\ Val(t.steps[i].output) # ""
     /\ \A t \in DOMAIN tasks :
          (Head(t.steps).op = "AnnotatePartOutput" /\ Runs(t)) =>
            LET st == Head(t.steps)
            IN /\ DOMAIN message_parts' = DOMAIN message_parts
               /\ \A p \in DOMAIN message_parts \ {st.id} :
                    message_parts'[p] = message_parts[p]
               /\ st.id \in DOMAIN message_parts =>
                    LET old == message_parts[st.id]
                        new == message_parts'[st.id]
                    IN /\ [new EXCEPT !.content = old.content] = old
                       /\ IF StoredOutput(old.content) # NULL
                            THEN new = old
                            ELSE \/ new = old
                                 \/ /\ SameButOutput(old.content, new.content)
                                    /\ StoredOutput(new.content) = st.output
               /\ UNCHANGED <<sessions, messages>>
    ]_vars

\* C38 witness: the running part p1 was annotated with the output of the call:
\* it is still running, has its tool name, and its content holds the output
C38_Witness ==
  /\ nEvents = 2
  /\ tasks = EmptyMap
  /\ "p1" \in DOMAIN message_parts
  /\ message_parts["p1"].tool_name = Some("bash")
  /\ message_parts["p1"].text = NULL
  /\ StoredOutput(message_parts["p1"].content) = Some("out")
  /\ Val(Val(message_parts["p1"].content).state).status = Some("running")

----------------------------------------------------------------------------
(* The number of ToolExecution rows                                          *)

\* the notifications that call for a new row: every tool.execute.before, and
\* every tool.execute.after that found no pending entry for its call id
RowNotifications == {e \in execLog : e.kind \in {"before", "orphan"}}

\* the inserts into tool_executions that are still in flight
InsertsInFlight ==
  {t \in DOMAIN tasks :
     \E i \in DOMAIN t.steps :
       t.steps[i].op \in {"InsertToolExecution", "InsertOrphanToolExecution"}}

\* C39: as long as every write succeeds, the number of ToolExecution rows
\* (with the inserts still in flight) equals the number of tool.execute.before
\* notifications handled plus the number of tool.execute.after notifications
\* that found no pending entry for their call id; no step deletes or merges
\* rows, so a duplicate before or a duplicate after for one call id each adds
\* one more row.
C39_RowsCountNotifications ==
  /\ []((lost = {} /\ nFaults = 0) =>
          Cardinality(tool_executions) + Cardinality(InsertsInFlight)
            = Cardinality(RowNotifications))
  /\ [][/\ {r.correlation_id : r \in tool_executions}
             \subseteq {r.correlation_id : r \in tool_executions'}
        /\ Cardinality(tool_executions') >= Cardinality(tool_executions)
       ]_vars

\* C39 witness: one call id got a before and two afters; the second after found
\* no pending entry: two rows, one started and completed, one synthesized
C39_Witness ==
  /\ nEvents = 3
  /\ lost = {}
  /\ tasks = EmptyMap
  /\ \E b \in execLog, a \in execLog, o \in execLog :
       /\ b.kind = "before" /\ a.kind = "after" /\ o.kind = "orphan"
       /\ b.callID = a.callID /\ a.callID = o.callID
  /\ Cardinality(tool_executions) = 2
  /\ Cardinality(RowNotifications) = 2

----------------------------------------------------------------------------
(* The closed gate reopens                                                   *)

MaxCapEvents == 3

\* the numbers of failures in a row the process starts from: none, one, the
\* first one the cap applies to, and many
CapFailures == {0, 1, 7, 12}

InitCap ==
  \E failures \in CapFailures :
    InitFrom("ok", AllHooks, failures, "s1" :> PriorSession, EmptyMap)

\* The clock of the model outlasts the failures: no operation fails or times
\* out after the clock's last tick.
NextCap ==
  \/ \E info \in UpdatedInputs : nEvents < MaxCapEvents /\ SessionUpdated(info)
  \/ Tick(MAX_BACKOFF_MS)
  \/ \E t \in DOMAIN tasks : StoreStep(t)
  \/ \E t \in DOMAIN tasks : nTicks < MaxTicks /\ StoreFault(t, "connection")
  \/ \E t \in DOMAIN tasks : nTicks < MaxTicks /\ StoreTimeout(t)

SpecCap == InitCap /\ [][NextCap]_vars

\* time passes
FairCap == SpecCap /\ WF_vars(Tick(MAX_BACKOFF_MS))

\* C40: from every reachable state of the health gate, the gate reports healthy
\* no later than 60000 ms after the most recent recorded failure, whatever the
\* failure count; the backoff never decreases as the failure count grows and
\* never exceeds 60000 ms; while the gate is closed no operation is admitted,
\* and still a closed gate reports healthy again as time passes.
C40_GateReopens ==
  /\ [](now - lastFailureTime >= MAX_BACKOFF_MS => isDatabaseHealthy)
  /\ [](\A f \in 1..(consecutiveFailures + 1) :
          /\ BackoffMs(f) <= BackoffMs(f + 1)
          /\ BackoffMs(f) <= MAX_BACKOFF_MS)
  /\ [][(~ isDatabaseHealthy /\ nEvents' # nEvents) => tasks' = tasks]_vars
  /\ (~ isDatabaseHealthy) ~> isDatabaseHealthy

\* C40 witness: after twelve failures in a row the gate was closed and dropped
\* the write of a notification; 60000 ms after the last failure it reports
\* healthy
C40_Witness ==
  /\ consecutiveFailures = 12
  /\ lost # {}
  /\ nFaults = 0
  /\ now - lastFailureTime = MAX_BACKOFF_MS
  /\ isDatabaseHealthy

====
